---- MODULE Spec2Model ----
(***************************************************************************)
(* Model of the date-resolution engine of photo_organizer:                 *)
(*   date_utils.py       validate_date, _parse_date_flexible,              *)
(*                       extract_xmp_date, get_filesystem_date             *)
(*   organize_photos.py  extract_date_from_filename,                       *)
(*                       get_file_creation_date, _cross_reference_dates    *)
(*   exif.py, file_types/*.py  the metadata stages of the chain            *)
(*   organize_photos.py  organize, move_file_safely,                       *)
(*                       create_destination_path                           *)
(*   error_handling.py   handle_error_cases                                *)
(*   gui/photo_organizer_gui.py  OrganizerWorker.run and the slots of the  *)
(*                       window                                            *)
(*                                                                         *)
(* A Python str is a sequence of one-character strings, so that parsing    *)
(* and formatting are computed character by character.  Optional[str] is   *)
(* such a sequence or the value None below.                                *)
(***************************************************************************)
EXTENDS Integers, Sequences, FiniteSets, TLC

VARIABLES
    tick,           \* seconds elapsed on the wall clock since T0
    date_string,    \* validate_date: the argument of the last call
    validated,      \* validate_date: what the last call returned
    validated_at,   \* validate_date: the clock reading (tick) of the last call
    first_at,       \* validate_date: the clock reading of the first call
    date_parts,     \* how date_string was written: [dt, style, sfx, pad]
    recursions,     \* validate_date: the recursive calls _parse_date_flexible made
    vpc,            \* validate_date: "idle" | "input" | "validated" | "revalidated"
    ffprobe_bin,    \* video_extractors._FFPROBE_BIN: ffprobe was found at import
    heif_registered,\* heif_extractor._heif_registered
    pc,             \* get_file_creation_date: "idle" | "step1" .. "step6" |
                    \*   "returned" | "raised"
    file_path,      \* its argument
    metadata_date,  \* its local metadata_date
    filename_date,  \* its local filename_date
    result,         \* the value it returned
    raised,         \* the class of the exception that left it, or "none"
    calls,          \* the stages it has called, in order: [stage, raised, out]
    mismatch_warned,\* _cross_reference_dates logged its warning in this call
    handles,        \* [open, last]: the stages whose file handle is open, and
                    \*   what the last stage opened and closed, in order
    given,          \* a stage called on its own: what it is given, [kind, ...]
    got,            \* what that call returned or raised
    ran_at,         \* the clock reading (tick) of that call
    events,         \* what the process imported and logged, and the extractors it called
    spc,            \* "idle" | "given" | "done"
    fs,             \* organize: the files on disk, path |-> content
    dirs,           \* organize: the directories of the origin tree
    tree,           \* organize: the origin tree at the start, path |-> what
                    \*   get_file_creation_date gives for the file
    todo,           \* organize: the collected files not yet processed
    failed,         \* organize: the files whose move raised OSError
    empty_dirs,     \* organize: its list empty_dirs
    count,          \* organize: total_files, processed_count, moved_count,
                    \*   error_count
    olog,           \* organize: what the turn of each file called and logged
    summary,        \* organize: the numbers of the "Complete" message
    oraised,        \* organize: the class of the exception that left it, or
                    \*   "none"
    opc,            \* organize: "off" | "idle" | "loop" | "returned" | "raised"
    organize_btn,   \* the GUI: the Start button is enabled
    worker,         \* the GUI: self.worker, the number of the thread, 0 for None
    threads,        \* the OrganizerWorker threads started: [pc, emitted], pc
                    \*   "started" | "organize" | "finally" | "ended"
    posted,         \* the signals queued for the GUI thread: [sender, signal,
                    \*   message]
    level,          \* the level of the logger "photo_organizer"
    dialogs,        \* the GUI: the modal message boxes that are open
    progress_label, \* the GUI: the text of progress_label
    did             \* the GUI: its calls of setEnabled and of worker.start,
                    \*   in order: [call, by]

vvars == <<date_string, validated, validated_at, first_at, date_parts, recursions, vpc>>
rvars == <<ffprobe_bin, heif_registered, pc, file_path, metadata_date, filename_date,
           result, raised, calls, mismatch_warned, handles>>
svars == <<given, got, ran_at, events, spc>>
ovars == <<fs, dirs, tree, todo, failed, empty_dirs, count, olog, summary, oraised,
           opc>>
gvars == <<organize_btn, worker, threads, posted, level, dialogs, progress_label, did>>
vars == <<tick, vvars, rvars, svars, ovars, gvars>>

-----------------------------------------------------------------------------
(* Characters and strings                                                  *)

\* Python's None; no str equals it (every element of a str has length 1).
None == <<"None">>

Digits == <<"0", "1", "2", "3", "4", "5", "6", "7", "8", "9">>

IsDigit(c) == c \in {"0", "1", "2", "3", "4", "5", "6", "7", "8", "9"}

DigitVal(c) == CHOOSE n \in 0..9 : Digits[n + 1] = c

\* str.isspace for the characters the model uses
IsSpace(c) == c \in {" ", "\t", "\n"}

\* s[i], or "" past the end (a regex sees the end of the string there)
At(s, i) == IF i >= 1 /\ i <= Len(s) THEN s[i] ELSE ""

RECURSIVE ToInt(_)
\* int(ds) for a string of digits
ToInt(ds) ==
    IF ds = <<>> THEN 0
    ELSE ToInt(SubSeq(ds, 1, Len(ds) - 1)) * 10 + DigitVal(ds[Len(ds)])

\* \d{n} at position i of s
AllDigits(s, i, n) ==
    /\ i >= 1
    /\ i + n - 1 <= Len(s)
    /\ \A k \in i..(i + n - 1) : IsDigit(s[k])

RECURSIVE Pad(_, _)
\* n rendered in w digits, zero-padded (%Y, %m, %d, %H, %M, %S of strftime)
Pad(n, w) ==
    IF w = 0 THEN <<>>
    ELSE Pad(n \div 10, w - 1) \o <<Digits[(n % 10) + 1]>>

RECURSIVE lstrip(_)
lstrip(s) ==
    IF s # <<>> /\ IsSpace(s[1]) THEN lstrip(Tail(s)) ELSE s

RECURSIVE rstrip(_)
rstrip(s) ==
    IF s # <<>> /\ IsSpace(s[Len(s)]) THEN rstrip(SubSeq(s, 1, Len(s) - 1)) ELSE s

\* str.strip()
strip(s) == rstrip(lstrip(s))

RECURSIVE rstripZ(_)
\* str.rstrip("Z"): every trailing Z goes
rstripZ(s) ==
    IF s # <<>> /\ s[Len(s)] = "Z" THEN rstripZ(SubSeq(s, 1, Len(s) - 1)) ELSE s

\* str.startswith
startswith(s, p) == Len(p) <= Len(s) /\ SubSeq(s, 1, Len(p)) = p

-----------------------------------------------------------------------------
(* datetime                                                                *)

Dt(y, mo, d, h, mi, s, us) ==
    [year |-> y, month |-> mo, day |-> d,
     hour |-> h, minute |-> mi, second |-> s, microsecond |-> us]

\* "no datetime": the parse raised ValueError (year 0 is below datetime.MINYEAR)
NoDt == Dt(0, 0, 0, 0, 0, 0, 0)

IsLeap(y) == (y % 4 = 0 /\ y % 100 # 0) \/ y % 400 = 0

DaysInMonth(y, m) ==
    IF m = 2 THEN (IF IsLeap(y) THEN 29 ELSE 28)
    ELSE IF m \in {4, 6, 9, 11} THEN 30 ELSE 31

\* datetime(y, mo, d, h, mi, s) does not raise ValueError
ValidDatetime(y, mo, d, h, mi, s) ==
    /\ y >= 1 /\ y <= 9999
    /\ mo >= 1 /\ mo <= 12
    /\ d >= 1 /\ d <= DaysInMonth(y, mo)
    /\ h >= 0 /\ h <= 23
    /\ mi >= 0 /\ mi <= 59
    /\ s >= 0 /\ s <= 59

\* a >= b: the comparison with the grace day gone inclusive
DtGreater_inclusive(a, b) ==
    LET ka == <<a.year, a.month, a.day, a.hour, a.minute, a.second, a.microsecond>>
        kb == <<b.year, b.month, b.day, b.hour, b.minute, b.second, b.microsecond>>
    IN ka = kb \/ \E i \in 1..7 :
                    /\ ka[i] > kb[i]
                    /\ \A j \in 1..(i - 1) : ka[j] = kb[j]

\* a > b on naive datetimes
DtGreater(a, b) ==
    LET ka == <<a.year, a.month, a.day, a.hour, a.minute, a.second, a.microsecond>>
        kb == <<b.year, b.month, b.day, b.hour, b.minute, b.second, b.microsecond>>
    IN \E i \in 1..7 :
          /\ ka[i] > kb[i]
          /\ \A j \in 1..(i - 1) : ka[j] = kb[j]

\* dt + timedelta(days=1)
PlusOneDay(dt) ==
    IF dt.day < DaysInMonth(dt.year, dt.month)
    THEN [dt EXCEPT !.day = dt.day + 1]
    ELSE IF dt.month < 12
         THEN [dt EXCEPT !.day = 1, !.month = dt.month + 1]
         ELSE [dt EXCEPT !.day = 1, !.month = 1, !.year = dt.year + 1]

RECURSIVE DaysBeforeMonth(_, _)
DaysBeforeMonth(y, m) ==
    IF m = 1 THEN 0 ELSE DaysBeforeMonth(y, m - 1) + DaysInMonth(y, m - 1)

\* date.toordinal(): days since 0001-01-01, that day being 1
ToOrdinal(dt) ==
    LET y == dt.year - 1
    IN y * 365 + (y \div 4) - (y \div 100) + (y \div 400)
       + DaysBeforeMonth(dt.year, dt.month) + dt.day

\* seconds since midnight
SecondOfDay(dt) == dt.hour * 3600 + dt.minute * 60 + dt.second

\* (a - b).total_seconds() for datetimes without microseconds
SecondsBetween(a, b) ==
    (ToOrdinal(a) - ToOrdinal(b)) * 86400 + SecondOfDay(a) - SecondOfDay(b)

\* dt.strftime("%Y/%m/%d %H:%M:%S"): a canonical form no format template reads
strftime_slashes(dt) ==
    Pad(dt.year, 4) \o <<"/">> \o Pad(dt.month, 2) \o <<"/">> \o Pad(dt.day, 2)
    \o <<" ">>
    \o Pad(dt.hour, 2) \o <<":">> \o Pad(dt.minute, 2) \o <<":">> \o Pad(dt.second, 2)

\* dt.strftime("%Y:%m:%d %H:%M:%S"), for a year of four digits
strftime(dt) ==
    Pad(dt.year, 4) \o <<":">> \o Pad(dt.month, 2) \o <<":">> \o Pad(dt.day, 2)
    \o <<" ">>
    \o Pad(dt.hour, 2) \o <<":">> \o Pad(dt.minute, 2) \o <<":">> \o Pad(dt.second, 2)


-----------------------------------------------------------------------------
(* datetime.strptime                                                       *)
(*                                                                         *)
(* A format is a sequence of tokens: a directive ("%Y", "%m", "%d", "%H",  *)
(* "%M", "%S", "%f", "%z"), " " (which _strptime compiles to \s+) or a     *)
(* literal character.  Each directive is matched by the regular expression *)
(* _strptime.TimeRE gives it.  In the formats below a numeric directive is *)
(* followed by a literal, by %z or by the end, none of which can match a   *)
(* digit, so the first alternative that matches locally is the one the     *)
(* backtracking matcher settles on.                                        *)

D19 == {"1", "2", "3", "4", "5", "6", "7", "8", "9"}
D05 == {"0", "1", "2", "3", "4", "5"}

\* length matched by a one-or-two character directive at s[i], 0 for no match
DirectiveLen(d, s, i) ==
    LET c1 == At(s, i)
        c2 == At(s, i + 1)
    IN CASE d = "%m" ->      \* 1[0-2]|0[1-9]|[1-9]
              IF c1 = "1" /\ c2 \in {"0", "1", "2"} THEN 2
              ELSE IF c1 = "0" /\ c2 \in D19 THEN 2
              ELSE IF c1 \in D19 THEN 1 ELSE 0
         [] d = "%d" ->      \* 3[0-1]|[1-2]\d|0[1-9]|[1-9]| [1-9]
              IF c1 = "3" /\ c2 \in {"0", "1"} THEN 2
              ELSE IF c1 \in {"1", "2"} /\ IsDigit(c2) THEN 2
              ELSE IF c1 = "0" /\ c2 \in D19 THEN 2
              ELSE IF c1 \in D19 THEN 1
              ELSE IF c1 = " " /\ c2 \in D19 THEN 2 ELSE 0
         [] d = "%H" ->      \* 2[0-3]|[0-1]\d|\d
              IF c1 = "2" /\ c2 \in {"0", "1", "2", "3"} THEN 2
              ELSE IF c1 \in {"0", "1"} /\ IsDigit(c2) THEN 2
              ELSE IF IsDigit(c1) THEN 1 ELSE 0
         [] d = "%M" ->      \* [0-5]\d|\d
              IF c1 \in D05 /\ IsDigit(c2) THEN 2
              ELSE IF IsDigit(c1) THEN 1 ELSE 0
         [] d = "%S" ->      \* 6[0-1]|[0-5]\d|\d
              IF c1 = "6" /\ c2 \in {"0", "1"} THEN 2
              ELSE IF c1 \in D05 /\ IsDigit(c2) THEN 2
              ELSE IF IsDigit(c1) THEN 1 ELSE 0
         [] OTHER -> 0

\* int() of what a one-or-two character directive matched (int(" 5") = 5)
DirectiveVal(s, i, n) ==
    IF s[i] = " " THEN DigitVal(s[i + 1]) ELSE ToInt(SubSeq(s, i, i + n - 1))

\* [0-9]{1,6} at s[i]: the number of digits taken, 0 for no match
FractionLen(s, i) ==
    IF ~IsDigit(At(s, i)) THEN 0
    ELSE CHOOSE n \in 1..6 :
           /\ AllDigits(s, i, n)
           /\ (n = 6 \/ ~IsDigit(At(s, i + n)))

RECURSIVE Pow10(_)
Pow10(n) == IF n = 0 THEN 1 ELSE 10 * Pow10(n - 1)

\* _strptime's reading of a matched offset: "Inconsistent use of :" and an
\* offset of 24 hours or more raise ValueError.  pm and ps are the places of the
\* minutes and of the seconds, stop the place after the match.
ZoneResult(s, i, pm, ps, hasSec, colon1, colon2, stop) ==
    [len |-> stop - i,
     ok |-> /\ (hasSec => (colon1 <=> colon2))
            /\ ToInt(SubSeq(s, i + 1, i + 2)) * 3600
               + ToInt(SubSeq(s, pm, pm + 1)) * 60
               + (IF hasSec THEN ToInt(SubSeq(s, ps, ps + 1)) ELSE 0) < 86400]

\* the optional group (:?[0-5]\d(\.\d{1,6})?)? at s[p3]
ZoneSeconds(s, i, pm, p3, ps, hasSec, colon1, colon2) ==
    ZoneResult(s, i, pm, ps, hasSec, colon1, colon2,
               IF ~hasSec THEN p3
               ELSE IF ~(At(s, ps + 2) = "." /\ IsDigit(At(s, ps + 3))) THEN ps + 2
               ELSE ps + 3 + FractionLen(s, ps + 3))

ZoneMinutes(s, i, pm, colon1) ==
    IF ~(At(s, pm) \in D05 /\ IsDigit(At(s, pm + 1)))
    THEN [len |-> 0, ok |-> FALSE]
    ELSE IF At(s, pm + 2) = ":"
    THEN ZoneSeconds(s, i, pm, pm + 2, pm + 3,
                     At(s, pm + 3) \in D05 /\ IsDigit(At(s, pm + 4)), colon1, TRUE)
    ELSE ZoneSeconds(s, i, pm, pm + 2, pm + 2,
                     At(s, pm + 2) \in D05 /\ IsDigit(At(s, pm + 3)), colon1, FALSE)

\* %z is [+-]\d\d:?[0-5]\d(:?[0-5]\d(\.\d{1,6})?)?|Z, always the last directive.
\* The result is [len, ok]: the characters matched (0 for no match) and whether
\* _strptime accepts the offset.
ZoneMatch(s, i) ==
    IF At(s, i) = "Z" THEN [len |-> 1, ok |-> TRUE]
    ELSE IF ~(At(s, i) \in {"+", "-"} /\ AllDigits(s, i + 1, 2))
    THEN [len |-> 0, ok |-> FALSE]
    ELSE IF At(s, i + 3) = ":" THEN ZoneMinutes(s, i, i + 4, TRUE)
    ELSE ZoneMinutes(s, i, i + 3, FALSE)

\* acc with the field of directive d set to v
SetField(acc, d, v) ==
    CASE d = "%Y" -> [acc EXCEPT !.year = v]
      [] d = "%m" -> [acc EXCEPT !.month = v]
      [] d = "%d" -> [acc EXCEPT !.day = v]
      [] d = "%H" -> [acc EXCEPT !.hour = v]
      [] d = "%M" -> [acc EXCEPT !.minute = v]
      [] d = "%S" -> [acc EXCEPT !.second = v]
      [] d = "%f" -> [acc EXCEPT !.microsecond = v]

RECURSIVE Scan(_, _, _, _, _)

\* a directive that matched n characters at s[i] (n = 0: no match)
ScanNumber(s, i, fmt, j, acc, n) ==
    IF n = 0 THEN NoDt
    ELSE Scan(s, i + n, fmt, j + 1,
              SetField(acc, fmt[j],
                       IF fmt[j] = "%f"
                       THEN ToInt(SubSeq(s, i, i + n - 1)) * Pow10(6 - n)
                       ELSE DirectiveVal(s, i, n)))

\* %z with the match z
ScanZone(s, i, fmt, j, acc, z) ==
    IF z.len = 0 \/ ~z.ok THEN NoDt
    ELSE Scan(s, i + z.len, fmt, j + 1, acc)

\* the match of fmt[j..] against s[i..], the fields found so far in acc
Scan(s, i, fmt, j, acc) ==
    IF j > Len(fmt)
    THEN IF i = Len(s) + 1 THEN acc ELSE NoDt   \* "unconverted data remains"
    ELSE CASE fmt[j] = "%Y" ->
                ScanNumber(s, i, fmt, j, acc, IF AllDigits(s, i, 4) THEN 4 ELSE 0)
           [] fmt[j] \in {"%m", "%d", "%H", "%M", "%S"} ->
                ScanNumber(s, i, fmt, j, acc, DirectiveLen(fmt[j], s, i))
           [] fmt[j] = "%f" ->
                ScanNumber(s, i, fmt, j, acc, FractionLen(s, i))
           [] fmt[j] = "%z" ->
                ScanZone(s, i, fmt, j, acc, ZoneMatch(s, i))
           [] fmt[j] = " " ->     \* \s+
                IF ~IsSpace(At(s, i)) THEN NoDt
                ELSE Scan(s, i + 1, fmt, IF IsSpace(At(s, i + 1)) THEN j ELSE j + 1, acc)
           [] OTHER ->            \* a literal; the regex is compiled with IGNORECASE
                IF At(s, i) = fmt[j] \/ (fmt[j] = "T" /\ At(s, i) = "t")
                THEN Scan(s, i + 1, fmt, j + 1, acc)
                ELSE NoDt

\* the datetime of the fields r, NoDt where datetime() raises ValueError
BuildDatetime(r) ==
    IF r # NoDt /\ ValidDatetime(r.year, r.month, r.day, r.hour, r.minute, r.second)
    THEN r ELSE NoDt

\* datetime.strptime(s, fmt) with tzinfo dropped (dt.replace(tzinfo=None)), or
\* NoDt where it raises ValueError.  A field the format lacks keeps strptime's
\* default (hour, minute, second and microsecond 0).
strptime(s, fmt) == BuildDatetime(Scan(s, 1, fmt, 1, Dt(1900, 1, 1, 0, 0, 0, 0)))

-----------------------------------------------------------------------------
(* date_utils.py                                                           *)

EARLIEST_VALID_YEAR == 1990

GARBAGE_DATE_PATTERNS == {
    <<"0", "0", "0", "0", ":", "0", "0", ":", "0", "0">>,
    <<" ", " ", " ", " ", ":", " ", " ", ":", " ", " ">>,
    <<"0", "0", "0", "0", "-", "0", "0", "-", "0", "0">>,
    <<"1", "9", "7", "0", ":", "0", "1", ":", "0", "1", " ",
      "0", "0", ":", "0", "0", ":", "0", "0">>,
    <<"1", "9", "7", "0", "-", "0", "1", "-", "0", "1", " ",
      "0", "0", ":", "0", "0", ":", "0", "0">>,
    <<"1", "9", "7", "0", "-", "0", "1", "-", "0", "1", "T",
      "0", "0", ":", "0", "0", ":", "0", "0">> }

\* the formats list of _parse_date_flexible, in its order
formats == <<
    <<"%Y", ":", "%m", ":", "%d", " ", "%H", ":", "%M", ":", "%S">>,
    <<"%Y", "-", "%m", "-", "%d", " ", "%H", ":", "%M", ":", "%S">>,
    <<"%Y", "-", "%m", "-", "%d", "T", "%H", ":", "%M", ":", "%S">>,
    <<"%Y", "-", "%m", "-", "%d", "T", "%H", ":", "%M", ":", "%S", "%z">>,
    <<"%Y", "-", "%m", "-", "%d", "T", "%H", ":", "%M", ":", "%S", ".", "%f">>,
    <<"%Y", "-", "%m", "-", "%d", "T", "%H", ":", "%M", ":", "%S", ".", "%f", "%z">>,
    <<"%Y", ":", "%m", ":", "%d", " ", "%H", ":", "%M", ":", "%S", "%z">>,
    <<"%Y", "-", "%m", "-", "%d">>,
    <<"%Y", ":", "%m", ":", "%d">> >>

\* the retry without the re.sub: a trailing +HH:MM stays
StripOffset_never(s) == s

\* re.sub(r"[+-]\d{2}:\d{2}$", "", s)
StripOffset(s) ==
    LET n == Len(s)
    IN IF /\ n >= 6
          /\ s[n - 5] \in {"+", "-"}
          /\ AllDigits(s, n - 4, 2)
          /\ s[n - 2] = ":"
          /\ AllDigits(s, n - 1, 2)
       THEN SubSeq(s, 1, n - 6)
       ELSE s

RECURSIVE parse_date_flexible(_)

\* no format parsed s: strip a trailing timezone, retry if that changed s
RetryStripped(s, cleaned) ==
    IF cleaned # s THEN parse_date_flexible(cleaned) ELSE NoDt

RECURSIVE TryFormats(_, _)

\* the body of "for fmt in formats" for formats[k], dt what strptime gave
TryFormat(s, k, dt) ==
    IF dt # NoDt THEN dt ELSE TryFormats(s, k + 1)

\* the loop "for fmt in formats" from formats[k] on, then the retry
TryFormats(s, k) ==
    IF k > Len(formats) THEN RetryStripped(s, rstripZ(StripOffset(s)))
    ELSE TryFormat(s, k, strptime(s, formats[k]))

\* _parse_date_flexible: the parsed naive datetime, or NoDt for None
parse_date_flexible(s) == TryFormats(strip(s), 1)

RECURSIVE Recursions(_)

\* lines 120-123 for the stripped s that no format parsed: one recursive
\* call, and those it makes, if stripping a timezone changed s
RecursionsAfter(s, cleaned) ==
    IF cleaned # s THEN 1 + Recursions(cleaned) ELSE 0

\* the number of calls of _parse_date_flexible that _parse_date_flexible(s)
\* makes, directly or not
Recursions(s) ==
    IF \E k \in 1..Len(formats) : strptime(strip(s), formats[k]) # NoDt THEN 0
    ELSE RecursionsAfter(strip(s), rstripZ(StripOffset(strip(s))))

\* the same for validate_date(s), which returns before the parse when s is
\* empty or starts with a garbage pattern
ValidateRecursions(s) ==
    IF s = None \/ s = <<>> \/ strip(s) = <<>> THEN 0
    ELSE IF \E p \in GARBAGE_DATE_PATTERNS : startswith(strip(s), p) THEN 0
    ELSE Recursions(strip(s))

\* validate_date from the parse on: the range checks and the canonical form
CheckParsed(parsed_dt, now) ==
    IF parsed_dt = NoDt THEN None
    ELSE IF parsed_dt.year < EARLIEST_VALID_YEAR THEN None
    ELSE IF DtGreater(parsed_dt, PlusOneDay(now)) THEN None
    ELSE strftime(parsed_dt)

\* validate_date from the strip on
ValidateStripped(t, now) ==
    IF \E p \in GARBAGE_DATE_PATTERNS : startswith(t, p) THEN None
    ELSE CheckParsed(parse_date_flexible(t), now)

\* validate_date(date_string) called when the wall clock reads now
validate_date(s, now) ==
    IF s = None \/ s = <<>> \/ strip(s) = <<>> THEN None
    ELSE ValidateStripped(strip(s), now)

-----------------------------------------------------------------------------
(* Paths: os.path.basename, os.path.splitext, str.lower                    *)

UpperCase == <<"A", "B", "C", "D", "E", "F", "G", "H", "I", "J", "K", "L", "M",
               "N", "O", "P", "Q", "R", "S", "T", "U", "V", "W", "X", "Y", "Z">>
LowerCase == <<"a", "b", "c", "d", "e", "f", "g", "h", "i", "j", "k", "l", "m",
               "n", "o", "p", "q", "r", "s", "t", "u", "v", "w", "x", "y", "z">>

LowerChar(c) ==
    IF \E k \in 1..26 : UpperCase[k] = c
    THEN LowerCase[CHOOSE k \in 1..26 : UpperCase[k] = c]
    ELSE c

\* str.lower()
lower(s) == [k \in 1..Len(s) |-> LowerChar(s[k])]

\* s.rfind(c) + 1: the last place of c in s, 0 when c is not in s
rfind(s, c) ==
    IF \E k \in 1..Len(s) : s[k] = c
    THEN CHOOSE k \in 1..Len(s) : s[k] = c /\ \A m \in (k + 1)..Len(s) : s[m] # c
    ELSE 0

\* os.path.basename, POSIX
basename(path) == SubSeq(path, rfind(path, "/") + 1, Len(path))

\* genericpath._splitext from the places of the last separator and the last dot:
\* the dot splits the name unless only dots stand between the separator and it
SplitAt(path, sepIndex, dotIndex) ==
    IF dotIndex > sepIndex
       /\ \E k \in (sepIndex + 1)..(dotIndex - 1) : path[k] # "."
    THEN <<SubSeq(path, 1, dotIndex - 1), SubSeq(path, dotIndex, Len(path))>>
    ELSE <<path, <<>> >>

\* os.path.splitext(path): <<root, ext>>
splitext(path) == SplitAt(path, rfind(path, "/"), rfind(path, "."))

-----------------------------------------------------------------------------
(* organize_photos.py: extract_date_from_filename                          *)
(*                                                                         *)
(* re.search gives the leftmost match.  In the three patterns the optional *)
(* parts ([\s_at-]*, [_-]?) match no digit and are followed by a digit, so *)
(* they take the longest run there is and backtracking changes nothing.    *)

\* _try_build_datetime: datetime(int(year), ...) or NoDt for None
try_build_datetime(year, month, day, hour, minute, second) ==
    IF ValidDatetime(ToInt(year), ToInt(month), ToInt(day),
                     ToInt(hour), ToInt(minute), ToInt(second))
    THEN Dt(ToInt(year), ToInt(month), ToInt(day),
            ToInt(hour), ToInt(minute), ToInt(second), 0)
    ELSE NoDt

\* the least i in 1..n with hits[i], 0 when there is none
Leftmost(hits, n) ==
    IF \E i \in 1..n : hits[i]
    THEN CHOOSE i \in 1..n : hits[i] /\ \A k \in 1..(i - 1) : ~hits[k]
    ELSE 0

\* pattern1 = (\d{4})(\d{2})(\d{2})[_-](\d{2})(\d{2})(\d{2}) matches at s[i]
Pattern1At(s, i) ==
    /\ AllDigits(s, i, 8)
    /\ At(s, i + 8) \in {"_", "-"}
    /\ AllDigits(s, i + 9, 6)

RECURSIVE JoinerLen(_, _)
\* [\s_at-]* at s[i]: the length of the run
JoinerLen(s, i) ==
    IF IsSpace(At(s, i)) \/ At(s, i) \in {"_", "a", "t", "-"}
    THEN 1 + JoinerLen(s, i + 1)
    ELSE 0

\* (\d{2})[.\-:](\d{2})[.\-:](\d{2}) at s[i]
ClockAt(s, i) ==
    /\ AllDigits(s, i, 2)
    /\ At(s, i + 2) \in {".", "-", ":"}
    /\ AllDigits(s, i + 3, 2)
    /\ At(s, i + 5) \in {".", "-", ":"}
    /\ AllDigits(s, i + 6, 2)

\* pattern2 = (\d{4})-(\d{2})-(\d{2})[\s_at-]*(\d{2})[.\-:](\d{2})[.\-:](\d{2})
Pattern2At(s, i) ==
    /\ AllDigits(s, i, 4)
    /\ At(s, i + 4) = "-"
    /\ AllDigits(s, i + 5, 2)
    /\ At(s, i + 7) = "-"
    /\ AllDigits(s, i + 8, 2)
    /\ ClockAt(s, i + 10 + JoinerLen(s, i + 10))

\* [_-]? at s[i]: its length
SepLen(s, i) == IF At(s, i) \in {"_", "-"} THEN 1 ELSE 0

\* pattern3 = (\d{4})[_-]?(\d{2})[_-]?(\d{2}) with the month at s[m]
Pattern3Month(s, m) ==
    /\ AllDigits(s, m, 2)
    /\ AllDigits(s, m + 2 + SepLen(s, m + 2), 2)

Pattern3At(s, i) ==
    /\ AllDigits(s, i, 4)
    /\ Pattern3Month(s, i + 4 + SepLen(s, i + 4))

\* a tier returning its string without validate_date: not what the code does
TierResult_unvalidated(dt, now) == strftime(dt)

\* the return of a tier that built dt: validate_date(dt.strftime(...))
TierResult(dt, now) == validate_date(strftime(dt), now)

\* tier 3 returning its string without validate_date: not what the code does
Tier3Built_unvalidated(dt, now) == IF dt # NoDt THEN strftime(dt) ELSE None

\* tier 3 with dt built from its match: "if dt: return validate_date(...)",
\* else the final "return None"
Tier3Built(dt, now) == IF dt # NoDt THEN TierResult(dt, now) ELSE None

\* tier 3 from its match whose month stands at s[m]: the time is set to noon
Tier3Month(s, i, m, now) ==
    Tier3Built(try_build_datetime(SubSeq(s, i, i + 3), SubSeq(s, m, m + 1),
                                  SubSeq(s, m + 2 + SepLen(s, m + 2),
                                         m + 3 + SepLen(s, m + 2)),
                                  <<"1", "2">>, <<"0">>, <<"0">>), now)

\* tier 3: pattern3 searched in s, i the place of the match (0: no match)
Tier3(s, i, now) ==
    IF i = 0 THEN None ELSE Tier3Month(s, i, i + 4 + SepLen(s, i + 4), now)

Search3(s) == Leftmost([i \in 1..Len(s) |-> Pattern3At(s, i)], Len(s))

\* tier 2 with dt built from its match, falling through to tier 3
Tier2Built(s, dt, now) ==
    IF dt # NoDt THEN TierResult(dt, now) ELSE Tier3(s, Search3(s), now)

\* tier 2 from its match at s[i] whose hour stands at s[h]
Tier2Clock(s, i, h, now) ==
    Tier2Built(s, try_build_datetime(SubSeq(s, i, i + 3), SubSeq(s, i + 5, i + 6),
                                     SubSeq(s, i + 8, i + 9), SubSeq(s, h, h + 1),
                                     SubSeq(s, h + 3, h + 4), SubSeq(s, h + 6, h + 7)),
               now)

\* tier 2: pattern2 searched in s, i the place of the match (0: no match)
Tier2(s, i, now) ==
    IF i = 0 THEN Tier3(s, Search3(s), now)
    ELSE Tier2Clock(s, i, i + 10 + JoinerLen(s, i + 10), now)

Search2(s) == Leftmost([i \in 1..Len(s) |-> Pattern2At(s, i)], Len(s))

\* tier 1 giving up when its numbers are no date: not what the code does
Tier1Built_or_none(s, dt, now) ==
    IF dt # NoDt THEN TierResult(dt, now) ELSE None

\* tier 1 going on to tier 2 when validate_date rejects its date: not what
\* the code does
Tier1Built_going_on(s, dt, now) ==
    IF dt # NoDt /\ TierResult(dt, now) # None THEN TierResult(dt, now)
    ELSE Tier2(s, Search2(s), now)

\* tier 1 with dt built from its match, falling through to tier 2
Tier1Built(s, dt, now) ==
    IF dt # NoDt THEN TierResult(dt, now) ELSE Tier2(s, Search2(s), now)

\* tier 1: pattern1 searched in s, i the place of the match (0: no match)
Tier1(s, i, now) ==
    IF i = 0 THEN Tier2(s, Search2(s), now)
    ELSE Tier1Built(s, try_build_datetime(SubSeq(s, i, i + 3), SubSeq(s, i + 4, i + 5),
                                          SubSeq(s, i + 6, i + 7), SubSeq(s, i + 9, i + 10),
                                          SubSeq(s, i + 11, i + 12),
                                          SubSeq(s, i + 13, i + 14)),
                    now)

Search1(s) == Leftmost([i \in 1..Len(s) |-> Pattern1At(s, i)], Len(s))

\* the three tiers on the name without its extension
FilenameTiers(name_without_ext, now) ==
    Tier1(name_without_ext, Search1(name_without_ext), now)

\* extract_date_from_filename(filename) called when the wall clock reads now
extract_date_from_filename(filename, now) ==
    FilenameTiers(splitext(filename)[1], now)

-----------------------------------------------------------------------------
(* The stages of the chain.  What a stage finds in the file is an argument: *)
(* the exception its library calls raise, if any, and the date values of   *)
(* the tags it looks up, in its order of preference.                       *)

\* the outcome of a call: a returned value, or an exception that left it
Return(v) == [raised |-> "none", value |-> v]
Raise(e) == [raised |-> e, value |-> None]

\* "if date:" on an Optional[str]
truthy(v) == v # None /\ v # <<>>

\* except (OSError, IOError, ValueError): IOError is OSError, and
\* json.JSONDecodeError is a ValueError
OSError_ValueError == {"OSError", "ValueError", "JSONDecodeError"}

\* except Exception: these and every other class an exception here has
Exception == OSError_ValueError \cup {"ImportError", "TimeoutExpired", "OverflowError",
                                     "AttributeError", "DecompressionBombError"}

\* try: return value / except <caught>: return None
Try(fault, caught, value) ==
    IF fault = "none" THEN Return(value)
    ELSE IF fault \in caught THEN Return(None) ELSE Raise(fault)

RECURSIVE FirstValid(_, _)
\* "validated = validate_date(str(date_value)); if validated: return validated"
\* with v the validated head of the values and rest the values after it
FirstValidFrom(v, rest, now) == IF truthy(v) THEN v ELSE FirstValid(rest, now)

\* the loop over the date values found, in order of preference
FirstValid(values, now) ==
    IF values = <<>> THEN None
    ELSE FirstValidFrom(validate_date(Head(values), now), Tail(values), now)

\* image_extractors._extract_pil_creation_date (PNG, GIF): img.info fields
extract_pil_creation_date(img, now) ==
    Try(img.fault, OSError_ValueError, FirstValid(img.tags, now))

\* image_extractors._extract_pil_exif_date (WebP, TIFF, JPEG 2000, MPO, AVIF)
extract_pil_exif_date(img, now) ==
    Try(img.fault, OSError_ValueError, FirstValid(img.tags, now))

\* image_extractors.extract_bmp_creation_date
extract_bmp_creation_date == Return(None)

\* raw_extractors._extract_raw_creation_date: the last clause is
\* "except Exception"
extract_raw_creation_date(img, now) ==
    Try(img.fault, Exception, FirstValid(img.tags, now))

\* heif_extractor._ensure_heif_support, its return value: registered is the
\* flag _heif_registered, installed whether "import pillow_heif" succeeds
ensure_heif_support(registered, installed) == registered \/ installed

\* heif_extractor.extract_heif_creation_date
extract_heif_creation_date(registered, img, now) ==
    IF ~ensure_heif_support(registered, img.installed) THEN Return(None)
    ELSE Try(img.fault, Exception, FirstValid(img.tags, now))

\* what a process imports and logs
Event(event, module) == [event |-> event, module |-> module]

\* "import <module>" and the warning of the "except ImportError" clause
ImportOf(module, installed) ==
    <<Event("import", module)>>
    \o (IF installed THEN <<>> ELSE <<Event("warning", module)>>)

\* heif_extractor._ensure_heif_support: the import it attempts and the
\* warning it logs
ensure_heif_support_logs(registered, installed) ==
    IF registered THEN <<>> ELSE ImportOf("pillow_heif", installed)

\* raw_extractors._extract_raw_creation_date: "import exifread" is the first
\* statement of every call
extract_raw_creation_date_logs(installed) == ImportOf("exifread", installed)

\* video_extractors._find_date_in_tags
find_date_in_tags(tags, now) == FirstValid(tags, now)

RECURSIVE StreamDate(_, _)
\* "date = _find_date_in_tags(stream...); if date: return date"
StreamDateFrom(date, rest, now) == IF truthy(date) THEN date ELSE StreamDate(rest, now)

\* the loop over probe["streams"]
StreamDate(streams, now) ==
    IF streams = <<>> THEN None
    ELSE StreamDateFrom(find_date_in_tags(Head(streams), now), Tail(streams), now)

\* the format-level tags first, then the streams
ProbeDate(date, streams, now) ==
    IF truthy(date) THEN date ELSE StreamDate(streams, now)

\* video_extractors._extract_ffprobe_creation_date: bin is _FFPROBE_BIN,
\* probe what running ffprobe and reading its output gives
extract_ffprobe_creation_date(bin, probe, now) ==
    IF ~bin THEN Return(None)
    ELSE Try(probe.fault, OSError_ValueError \cup {"TimeoutExpired"},
             IF probe.returncode # 0 THEN None
             ELSE ProbeDate(find_date_in_tags(probe.format_tags, now),
                            probe.streams, now))

\* video_extractors._extract_hachoir_creation_date
extract_hachoir_creation_date(h, now) ==
    Try(h.fault, OSError_ValueError,
        IF h.parser /\ h.creation_date # NoDt
        THEN validate_date(strftime(h.creation_date), now)
        ELSE None)

\* a function _extract_video_creation_date called, and its outcome
Called(fn, o) == [fn |-> fn, raised |-> o.raised, value |-> o.value]

\* hachoir is called after every fast path that returns: not what the code
\* does
VideoFallback_always(first, h, now) ==
    IF first.raised # "none" THEN <<Called("ffprobe", first)>>
    ELSE <<Called("ffprobe", first),
           Called("hachoir", extract_hachoir_creation_date(h, now))>>

\* "if date: return date" after ffprobe, else the hachoir fallback: the
\* calls made, in order
VideoFallback(first, h, now) ==
    IF first.raised # "none" \/ truthy(first.value) THEN <<Called("ffprobe", first)>>
    ELSE <<Called("ffprobe", first),
           Called("hachoir", extract_hachoir_creation_date(h, now))>>

\* video_extractors._extract_video_creation_date, the calls it makes
extract_video_creation_date_calls(bin, video, now) ==
    VideoFallback(extract_ffprobe_creation_date(bin, video.probe, now),
                  video.hachoir, now)

\* the outcome of the last call is the outcome of the caller
OutcomeOf(made) ==
    [raised |-> made[Len(made)].raised, value |-> made[Len(made)].value]

\* video_extractors._extract_video_creation_date
extract_video_creation_date(bin, video, now) ==
    OutcomeOf(extract_video_creation_date_calls(bin, video, now))

\* exif.extract_exif_data: the last clause is "except Exception"
extract_exif_data(img, now) ==
    Try(img.fault, Exception, FirstValid(img.tags, now))

\* exif.extract_exif_via_pillow: "except Exception"
extract_exif_via_pillow(img, now) ==
    Try(img.fault, Exception, FirstValid(img.tags, now))

\* the block closes its handle only when it is left without an exception:
\* not what the code does
WithHandle_unless_raised(stage, opened, fault) ==
    IF ~opened THEN <<>>
    ELSE IF fault = "none"
         THEN <<[op |-> "open", by |-> stage],
                [op |-> "close", by |-> stage, on |-> "return"]>>
         ELSE <<[op |-> "open", by |-> stage]>>

\* "with open(file_path, 'rb') as f:", "with PILImage.open(file_path) as
\* img:" and "with parser:" in a stage: opened is whether the handle was
\* obtained, fault the exception that leaves the block or "none"
WithHandle(stage, opened, fault) ==
    IF ~opened THEN <<>>
    ELSE <<[op |-> "open", by |-> stage],
           [op |-> "close", by |-> stage,
            on |-> IF fault = "none" THEN "return" ELSE fault]>>

\* whether the handle of a stage's block was obtained when fault is what the
\* stage ran into: a failed import comes before the block,
\* DecompressionBombError is raised by Image.open itself, an OSError by the
\* open or by a later read
Obtained(fault) ==
    CASE fault \in {"ImportError", "DecompressionBombError"} -> {FALSE}
      [] fault = "OSError" -> {FALSE, TRUE}
      [] OTHER -> {TRUE}

\* the parser of _extract_hachoir_creation_date: createParser hands the
\* caller a parser or None
HachoirObtained(h) ==
    IF h.parser THEN Obtained(h.fault) ELSE {FALSE}

\* date_utils.extract_xmp_date, date_patterns: the tags in the order the
\* loop tries them
date_patterns_docstring ==
    <<"xmp:CreateDate", "photoshop:DateCreated", "exif:DateTimeOriginal",
      "xmp:ModifyDate">>

date_patterns ==
    <<"exif:DateTimeOriginal", "photoshop:DateCreated", "xmp:CreateDate",
      "xmp:ModifyDate">>

\* [>\s"]* from position i of text: how many characters it takes
RECURSIVE SkipLen(_, _)
SkipLen(text, i) ==
    IF i <= Len(text) /\ (text[i] \in {">", "\""} \/ IsSpace(text[i]))
    THEN 1 + SkipLen(text, i + 1) ELSE 0

\* _dt at position i: \d{4}[-:]\d{2}[-:]\d{2}[T ]\d{2}:\d{2}:\d{2}
DtShapeAt(text, i) ==
    /\ i + 18 <= Len(text)
    /\ \A k \in {0, 1, 2, 3, 5, 6, 8, 9, 11, 12, 14, 15, 17, 18} :
          IsDigit(text[i + k])
    /\ text[i + 4] \in {"-", ":"}
    /\ text[i + 7] \in {"-", ":"}
    /\ text[i + 10] \in {"T", " "}
    /\ text[i + 13] = ":"
    /\ text[i + 16] = ":"

\* [^\s<"]* from position i of text: how many characters it takes
RECURSIVE TailLen(_, _)
TailLen(text, i) ==
    IF i <= Len(text) /\ text[i] \notin {"<", "\""} /\ ~IsSpace(text[i])
    THEN 1 + TailLen(text, i + 1) ELSE 0

\* group 1 of _cap matched at position i of what follows the tag name
CaptureAt(text, i) ==
    IF DtShapeAt(text, i)
    THEN SubSeq(text, i, i + 18 + TailLen(text, i + 19)) ELSE None

Captured(text) == CaptureAt(text, 1 + SkipLen(text, 1))

\* pattern.search(xmp_text): the occurrences of the tag name are the
\* elements carrying it, in document order; text is what follows the name
RECURSIVE SearchTag(_, _, _)
SearchTag(elements, tag, i) ==
    IF i > Len(elements) THEN None
    ELSE IF elements[i].tag = tag /\ Captured(elements[i].text) # None
         THEN Captured(elements[i].text)
         ELSE SearchTag(elements, tag, i + 1)

\* the loop over date_patterns from the k-th pattern on
RECURSIVE PatternsFrom(_, _, _, _)
PatternValidated(patterns, elements, k, v, now) ==
    IF truthy(v) THEN v ELSE PatternsFrom(patterns, elements, k + 1, now)

PatternMatched(patterns, elements, k, raw, now) ==
    IF raw = None THEN PatternsFrom(patterns, elements, k + 1, now)
    ELSE PatternValidated(patterns, elements, k, validate_date(raw, now), now)

PatternsFrom(patterns, elements, k, now) ==
    IF k > Len(patterns) THEN None
    ELSE PatternMatched(patterns, elements, k,
                        SearchTag(elements, patterns[k], 1), now)

\* date_utils.extract_xmp_date: marker is the opening marker found in the
\* first 3 MB ("none" when neither is there), elements what the packet
\* holds from the marker on
extract_xmp_date(xmp, now) ==
    Try(xmp.fault, Exception,
        IF xmp.marker = "none" THEN None
        ELSE PatternsFrom(date_patterns, xmp.elements, 1, now))

\* the year of the day with ordinal ord
YearOf(ord) ==
    CHOOSE y \in 1970..2100 :
        /\ ToOrdinal(Dt(y, 1, 1, 0, 0, 0, 0)) <= ord
        /\ ord < ToOrdinal(Dt(y + 1, 1, 1, 0, 0, 0, 0))

\* the month of the day with ordinal ord in year y
MonthOf(y, ord) ==
    CHOOSE m \in 1..12 :
        /\ ToOrdinal(Dt(y, m, 1, 0, 0, 0, 0)) <= ord
        /\ ord <= ToOrdinal(Dt(y, m, DaysInMonth(y, m), 0, 0, 0, 0))

FromOrdinalMonth(y, m, ord, sod) ==
    Dt(y, m, ord - ToOrdinal(Dt(y, m, 1, 0, 0, 0, 0)) + 1,
       sod \div 3600, (sod % 3600) \div 60, sod % 60, 0)

FromOrdinalYear(y, ord, sod) == FromOrdinalMonth(y, MonthOf(y, ord), ord, sod)

\* datetime.fromtimestamp(timestamp) for a positive number of whole seconds,
\* the local time zone being UTC: 1970-01-01 has ordinal 719163
fromtimestamp(timestamp) ==
    FromOrdinalYear(YearOf(719163 + timestamp \div 86400),
                    719163 + timestamp \div 86400, timestamp % 86400)

\* "if timestamp and timestamp > 0:" and what follows
TimestampDate(timestamp, now) ==
    IF timestamp > 0
    THEN validate_date(strftime(fromtimestamp(timestamp)), now)
    ELSE None

\* the modification time even when stat has a birth time: not what the code
\* does
get_filesystem_date_mtime(stat, now) ==
    Try(stat.fault, {"OSError", "OverflowError", "ValueError"},
        TimestampDate(stat.st_mtime, now))

\* date_utils.get_filesystem_date: stat is what os.stat gives
get_filesystem_date(stat, now) ==
    Try(stat.fault, {"OSError", "OverflowError", "ValueError"},
        TimestampDate(IF stat.has_birthtime THEN stat.st_birthtime
                      ELSE stat.st_mtime, now))

\* organize_photos._cross_reference_dates, TRUE when it logs the warning:
\* dt_meta and dt_file are the two dates read back with strptime
DatesDisagree(dt_meta, dt_file) ==
    IF dt_meta = NoDt \/ dt_file = NoDt THEN FALSE
    ELSE \/ SecondsBetween(dt_meta, dt_file) > 86400
         \/ SecondsBetween(dt_file, dt_meta) > 86400

cross_reference_dates(meta, name) ==
    DatesDisagree(strptime(meta, formats[1]), strptime(name, formats[1]))

-----------------------------------------------------------------------------
(* The wall clock                                                          *)

\* number of seconds the clock may advance in a run
MaxTicks == 2

\* datetime.now() at the start of a run: the day before a leap day, so that
\* now + 1 day is February 29
T0 == Dt(2024, 2, 28, 10, 30, 0, 250000)

\* datetime.now() after k seconds
Clock(k) == [T0 EXCEPT !.second = T0.second + k]

wall_clock == Clock(tick)

\* time passes
Tick ==
    /\ tick < MaxTicks
    /\ tick' = tick + 1

-----------------------------------------------------------------------------
(* validate_date at rest, while get_file_creation_date is followed         *)

ValidatorIdle ==
    /\ date_string = <<>>
    /\ validated = None
    /\ validated_at = 0
    /\ first_at = 0
    /\ date_parts = <<>>
    /\ recursions = 0
    /\ vpc = "idle"

\* organize is not called
OrganizerIdle ==
    /\ fs = <<>>
    /\ tree = <<>>
    /\ todo = {}
    /\ failed = {}
    /\ dirs = {}
    /\ empty_dirs = <<>>
    /\ count = [total_files |-> 0, processed_count |-> 0, moved_count |-> 0,
                error_count |-> 0]
    /\ olog = <<>>
    /\ summary = <<>>
    /\ oraised = "none"
    /\ opc = "off"

\* no stage is called on its own
StagesIdle ==
    /\ given = <<>>
    /\ got = <<>>
    /\ ran_at = 0
    /\ events = <<>>
    /\ spc = "idle"

\* the window after PhotoOrganizerGUI.__init__: no worker, the button
\* enabled, and setup_logging has set the level of the logger to INFO
GuiIdle ==
    /\ organize_btn = TRUE
    /\ worker = 0
    /\ threads = <<>>
    /\ posted = <<>>
    /\ level = "INFO"
    /\ dialogs = 0
    /\ progress_label = ""
    /\ did = <<>>

-----------------------------------------------------------------------------
(* The registries of file_types and organize_photos.py, by their keys      *)

VIDEO_EXTRACTORS == {
    <<".", "m", "o", "v">>,
    <<".", "m", "p", "4">>,
    <<".", "a", "v", "i">>,
    <<".", "m", "4", "v">>,
    <<".", "3", "g", "p">>,
    <<".", "m", "k", "v">>,
    <<".", "w", "e", "b", "m">> }

\* the IMAGE_EXTRACTORS keys whose extractor reads img.info
PIL_INFO_EXTENSIONS == {<<".", "p", "n", "g">>, <<".", "g", "i", "f">>}

\* the IMAGE_EXTRACTORS keys whose extractor reads img.getexif()
PIL_EXIF_EXTENSIONS == {
    <<".", "w", "e", "b", "p">>,
    <<".", "t", "i", "f", "f">>,
    <<".", "t", "i", "f">>,
    <<".", "j", "p", "2">>,
    <<".", "j", "2", "k">>,
    <<".", "m", "p", "o">>,
    <<".", "a", "v", "i", "f">> }

BMP_EXTENSIONS == {<<".", "b", "m", "p">>}

IMAGE_EXTRACTORS == PIL_INFO_EXTENSIONS \cup PIL_EXIF_EXTENSIONS \cup BMP_EXTENSIONS

RAW_EXTRACTORS == {
    <<".", "d", "n", "g">>,
    <<".", "c", "r", "2">>,
    <<".", "c", "r", "3">>,
    <<".", "n", "e", "f">>,
    <<".", "a", "r", "w">>,
    <<".", "o", "r", "f">>,
    <<".", "r", "w", "2">>,
    <<".", "r", "a", "f">> }

HEIF_EXTRACTORS == {<<".", "h", "e", "i", "c">>, <<".", "h", "e", "i", "f">>}

ALL_EXTRACTORS ==
    VIDEO_EXTRACTORS \cup IMAGE_EXTRACTORS \cup RAW_EXTRACTORS \cup HEIF_EXTRACTORS

FILE_TYPE_EXTRACTORS == ALL_EXTRACTORS

_VIDEO_EXTENSIONS == VIDEO_EXTRACTORS

\* file_ext without the lower(): the extension as it is written
FileExt_as_written(path) == splitext(path)[2]

\* file_ext = os.path.splitext(file_path)[1].lower()
FileExt(path) == lower(splitext(path)[2])

\* is_video = file_ext in _VIDEO_EXTENSIONS
is_video(file_ext) == file_ext \in _VIDEO_EXTENSIONS

-----------------------------------------------------------------------------
(* organize: a turn of its loop on one file                                *)

\* a path is the sequence of its components; os.path.join appends
OriginDir == <<<<"o", "r", "i", "g", "i", "n">>>>
DestinationDir == <<<<"d", "e", "s", "t", "i", "n", "a", "t", "i", "o", "n">>>>
Unknown == <<"U", "n", "k", "n", "o", "w", "n">>

\* os.path.basename and os.path.dirname of a path
NameOf(path) == path[Len(path)]
Parent(path) == SubSeq(path, 1, Len(path) - 1)

\* organize_photos.FILES_TO_DELETE
FILES_TO_DELETE == {<<"t", "h", "u", "m", "b", "s", ".", "d", "b">>, <<"d", "e", "s", "k", "t",
        "o", "p">>}

\* the name is compared as it is written: not what the code does
should_skip_file_as_written(filename) == filename \in FILES_TO_DELETE

\* organize_photos.should_skip_file
should_skip_file(filename) == lower(filename) \in FILES_TO_DELETE

\* os.path.exists, os.remove, writing a file, shutil.move
Exists(files, p) == p \in DOMAIN files
Remove(files, p) == [q \in DOMAIN files \ {p} |-> files[q]]
Put(files, p, content) ==
    [q \in DOMAIN files \cup {p} |-> IF q = p THEN content ELSE files[q]]
Move(files, src, dst) == Remove(Put(files, dst, files[src]), src)

\* os.walk: the files of a directory, and whether it holds anything at all
FilesIn(files, d) == {q \in DOMAIN files : Parent(q) = d}
Holds(files, ds, d) == FilesIn(files, d) # {} \/ \E c \in ds : c # d /\ Parent(c) = d

\* str(n) of a natural number
RECURSIVE Str(_)
Str(n) == IF n < 10 THEN <<Digits[n + 1]>> ELSE Str(n \div 10) \o <<Digits[(n % 10) + 1]>>

\* str.zfill
RECURSIVE zfill(_, _)
zfill(s, width) == IF Len(s) >= width THEN s ELSE zfill(<<"0">> \o s, width)

\* the month is written as str(date.month): not what the code does
create_destination_path_unpadded(creation_date, destination_dir) ==
    destination_dir
    \o <<Str(strptime(creation_date, formats[1]).year),
         Str(strptime(creation_date, formats[1]).month)>>

\* organize_photos.create_destination_path
create_destination_path(creation_date, destination_dir) ==
    destination_dir
    \o <<Str(strptime(creation_date, formats[1]).year),
         zfill(Str(strptime(creation_date, formats[1]).month), 2)>>

\* what a call on the file system gave: the exception that left it, what it
\* returned, and the files afterwards
Io(exc, value, files) == [raised |-> exc, value |-> value, files |-> files]

\* the calls of handle_error_cases and of move_file_safely that may raise
\* OSError; "none": none does
ErrorFaults == {"none", "shutil.copy", "os.remove"}
MoveFaults == {"none", "os.makedirs", "shutil.move", "os.remove"}

\* the file is copied to Unknown and the source is left where it is: not
\* what the code does
handle_error_cases_copying(files, destination_dir, file, file_dir, io) ==
    IF io # "none" THEN Io("OSError", None, files)
    ELSE IF ~Exists(files, destination_dir \o <<Unknown, file>>)
    THEN Io("none", None, Put(files, destination_dir \o <<Unknown, file>>, files[file_dir]))
    ELSE Io("none", None, files)

\* error_handling.handle_error_cases, io being the call that raises OSError
\* if it is made
handle_error_cases(files, destination_dir, file, file_dir, io) ==
    IF ~Exists(files, destination_dir \o <<Unknown, file>>)
    THEN IF io = "shutil.copy" THEN Io("OSError", None, files)
         ELSE IF io = "os.remove"
         THEN Io("OSError", None,
                 Put(files, destination_dir \o <<Unknown, file>>, files[file_dir]))
         ELSE Io("none", None,
                 Remove(Put(files, destination_dir \o <<Unknown, file>>, files[file_dir]),
                        file_dir))
    ELSE IF io = "os.remove" THEN Io("OSError", None, files)
         ELSE Io("none", None, Remove(files, file_dir))

\* an existing file at the destination is replaced by the source: not what
\* the code does
move_file_safely_overwriting(files, source_path, dest_path, filename, io) ==
    IF io = "os.makedirs" THEN Io("OSError", None, files)
    ELSE IF io = "shutil.move" THEN Io("none", FALSE, files)
    ELSE Io("none", TRUE, Move(files, source_path, dest_path \o <<filename>>))

\* organize_photos.move_file_safely, io being the call that raises OSError if
\* it is made: os.makedirs is outside the try, lines 306-318 catch the others
move_file_safely(files, source_path, dest_path, filename, io) ==
    IF io = "os.makedirs" THEN Io("OSError", None, files)
    ELSE IF ~Exists(files, dest_path \o <<filename>>)
    THEN IF io = "shutil.move" THEN Io("none", FALSE, files)
         ELSE Io("none", TRUE, Move(files, source_path, dest_path \o <<filename>>))
    ELSE IF io = "os.remove" THEN Io("none", FALSE, files)
         ELSE Io("none", TRUE, Remove(files, source_path))

\* what one turn of the loop of organize did: the files afterwards, what it
\* incremented, called and logged, in order, and the exception that left
\* organize, or "none"
Turn(files, log, exc) == [files |-> files, log |-> log, raised |-> exc]

\* log_and_handle_error is called in the try of line 412: c is what its
\* handle_error_cases gave, and lines 450-452 catch its OSError
InTry(c, log) ==
    IF c.raised = "none"
    THEN Turn(c.files, log \o <<"error_count += 1", "log_and_handle_error">>, "none")
    ELSE Turn(c.files,
              log \o <<"error_count += 1", "log_and_handle_error", "error_count += 1",
                       "error:452">>,
              "none")

\* the handler of line 442, c being what handle_error_cases gave: no clause
\* catches what log_and_handle_error raises there
InHandler(c) == Turn(c.files, <<"error_count += 1", "log_and_handle_error">>, c.raised)

\* lines 418-432 and 450-452 with the outcome m of move_file_safely
AfterMove(m, path, h) ==
    IF m.raised # "none" THEN Turn(m.files, <<"error_count += 1", "error:452">>, "none")
    ELSE IF m.value = TRUE THEN Turn(m.files, <<"moved_count += 1">>, "none")
    ELSE IF Exists(m.files, path)
    THEN InTry(handle_error_cases(m.files, DestinationDir, NameOf(path), path, h),
               <<"error:317">>)
    ELSE Turn(m.files, <<"error:317">>, "none")

\* lines 412-452 with what get_file_creation_date gave for the file
Line413(files, path, o, io, h) ==
    IF o.raised \in {"ValueError", "UnpackError"}
    THEN InHandler(handle_error_cases(files, DestinationDir, NameOf(path), path, h))
    ELSE IF o.raised = "OSError"
    THEN Turn(files, <<"error_count += 1", "error:452">>, "none")
    ELSE IF o.raised # "none" THEN Turn(files, <<>>, o.raised)
    ELSE IF ~truthy(o.value)
    THEN InTry(handle_error_cases(files, DestinationDir, NameOf(path), path, h), <<>>)
    ELSE AfterMove(move_file_safely(files, path,
                                    create_destination_path(o.value, DestinationDir),
                                    NameOf(path), io),
                   path, h)

\* lines 392-398: a file that is to be deleted, os.remove raising OSError
\* or not
Line392(files, path, io) ==
    IF io = "os.remove" THEN Turn(files, <<"error:397">>, "none")
    ELSE Turn(Remove(files, path), <<>>, "none")

\* how often what stands in a log
Count(log, what) == Len(SelectSeq(log, LAMBDA e : e = what))

\* processed_count, moved_count and error_count of lines 384-386
Counts(total, processed, moved, errors) ==
    [total_files |-> total, processed_count |-> processed, moved_count |-> moved,
     error_count |-> errors]

\* a turn of the loop on the file at src gave r, the counters being c before
\* it: line 389 and the increments of the turn
Took(src, r, c, dated) ==
    /\ fs' = r.files
    /\ count' = Counts(c.total_files, c.processed_count + 1,
                       c.moved_count + Count(r.log, "moved_count += 1"),
                       c.error_count + Count(r.log, "error_count += 1"))
    /\ olog' = (src :> r.log) @@ olog
    /\ failed' = (IF dated /\ Count(r.log, "moved_count += 1") = 0
                  THEN failed \cup {src} ELSE failed)
    /\ oraised' = r.raised
    /\ opc' = (IF r.raised = "none" THEN "loop" ELSE "raised")

\* the turn has called get_file_creation_date
Resolving(r) == [r EXCEPT !.log = <<"get_file_creation_date">> \o @]

-----------------------------------------------------------------------------
(* The files get_file_creation_date is called on                           *)

\* names with a full date and time, with no date, and with a date before
\* EARLIEST_VALID_YEAR
Names == {
    <<"I", "M", "G", "_", "2", "0", "2", "4", "0", "2", "2", "0", "_", "1", "0", "1", "5", "0",
            "0">>,
    <<"h", "o", "l", "i", "d", "a", "y">>,
    <<"1", "9", "8", "5", "0", "6", "0", "1", "_", "1", "2", "0", "0", "0", "0">> }

\* one extension of each registry, an unregistered one, and a video
\* extension in capitals
Extensions == {
    <<".", "j", "p", "g">>,
    <<".", "p", "n", "g">>,
    <<".", "t", "i", "f", "f">>,
    <<".", "b", "m", "p">>,
    <<".", "c", "r", "2">>,
    <<".", "h", "e", "i", "c">>,
    <<".", "M", "O", "V">> }

Directory == <<"/", "p", "/">>

Files == {Directory \o n \o e : n \in Names, e \in Extensions}

\* date values of metadata tags: the date of the name IMG_20240220_101500,
\* exactly one day after it, a second more than that with a UTC offset,
\* a placeholder, a date before 1990, and three quarters of a second past
\* T0 + 1 day
SameAsName == <<"2", "0", "2", "4", ":", "0", "2", ":", "2", "0", " ", "1", "0", ":", "1", "5",
        ":", "0", "0">>
DayLater == <<"2", "0", "2", "4", ":", "0", "2", ":", "2", "1", " ", "1", "0", ":", "1", "5",
        ":", "0", "0">>
DayLaterPlus == <<"2", "0", "2", "4", "-", "0", "2", "-", "2", "1", "T", "1", "0", ":", "1",
        "5", ":", "0", "1", "+", "0", "5", ":", "3", "0">>
Placeholder == <<"0", "0", "0", "0", ":", "0", "0", ":", "0", "0", " ", "0", "0", ":", "0",
        "0", ":", "0", "0">>
Before1990 == <<"1", "9", "8", "5", ":", "0", "6", ":", "0", "1", " ", "1", "2", ":", "0", "0",
        ":", "0", "0">>
EdgeOfGrace == <<"2", "0", "2", "4", ":", "0", "2", ":", "2", "9", " ", "1", "0", ":", "3",
        "0", ":", "0", "1">>

TagValues == {SameAsName, DayLater, DayLaterPlus, Placeholder, Before1990, EdgeOfGrace}

\* the date values a reader finds, in its order of preference
TagLists ==
    {<<>>} \cup {<<v>> : v \in TagValues}
    \cup {<<Placeholder, SameAsName>>, <<Before1990, EdgeOfGrace>>,
          <<DayLater, SameAsName>>}

\* what a reader finds: an exception of one of the classes faults, or tags
Images(faults) ==
    {[fault |-> f, tags |-> <<>>] : f \in faults}
    \cup {[fault |-> "none", tags |-> t] : t \in TagLists}

\* Pillow: PIL.UnidentifiedImageError is an OSError; DecompressionBombError,
\* raised by Image.open on oversized dimensions, derives from Exception only
PilImages == Images({"OSError", "ValueError", "DecompressionBombError"})

\* exifread and the exif library
ExifImages == Images({"ValueError", "AttributeError"})

HeifImages ==
    {[installed |-> FALSE, fault |-> "none", tags |-> <<>>]}
    \cup {[installed |-> TRUE, fault |-> i.fault, tags |-> i.tags] : i \in PilImages}

\* runs of ffprobe: it times out, cannot be started, exits non-zero, prints
\* no JSON, prints JSON that is no object, or prints format and stream tags
StreamLists == {<<>>, << <<SameAsName>> >>, << <<Placeholder>>, <<DayLater>> >>}

Probes ==
    {[fault |-> f, returncode |-> 0, format_tags |-> <<>>, streams |-> <<>>] :
        f \in {"TimeoutExpired", "OSError", "JSONDecodeError", "AttributeError"}}
    \cup {[fault |-> "none", returncode |-> 1, format_tags |-> <<>>, streams |-> <<>>]}
    \cup {[fault |-> "none", returncode |-> 0, format_tags |-> t, streams |-> <<>>] :
            t \in TagLists}
    \cup {[fault |-> "none", returncode |-> 0, format_tags |-> t, streams |-> s] :
            t \in {<<>>, <<Placeholder>>}, s \in StreamLists}

\* hachoir: not installed, an I/O error, no parser, no creation_date, the
\* date of the name, and the zero of the QuickTime epoch
Hachoirs ==
    {[fault |-> f, parser |-> TRUE, creation_date |-> NoDt] :
        f \in {"ImportError", "OSError"}}
    \cup {[fault |-> "none", parser |-> FALSE, creation_date |-> NoDt]}
    \cup {[fault |-> "none", parser |-> TRUE, creation_date |-> d] :
            d \in {NoDt, Dt(2024, 2, 20, 10, 15, 0, 0), Dt(1904, 1, 1, 0, 0, 0, 0)}}

Videos == [probe : Probes, hachoir : Hachoirs]

\* an element of an XMP packet: <tag>value</tag>
Element(tag, value) == [tag |-> tag, text |-> <<">">> \o value \o <<"<">>]

XmpPackets ==
    {[fault |-> "OSError", marker |-> "none", elements |-> <<>>],
     [fault |-> "none", marker |-> "none", elements |-> <<>>],
     [fault |-> "none", marker |-> "x:xmpmeta", elements |-> <<>>],
     [fault |-> "none", marker |-> "rdf:RDF",
      elements |-> <<Element("xmp:ModifyDate", SameAsName),
                     Element("exif:DateTimeOriginal", Placeholder)>>]}
    \cup {[fault |-> "none", marker |-> "x:xmpmeta",
           elements |-> <<Element("xmp:CreateDate", v)>>] : v \in TagValues}

\* seconds since the epoch: none, 1971-01-01, 2024-02-20 10:15:00, and
\* 2030-03-17 17:46:40
Timestamps == {0, 31536000, 1708424100, 1900000000}

Stats ==
    {[fault |-> f, has_birthtime |-> FALSE, st_birthtime |-> 0, st_mtime |-> 0] :
        f \in {"OSError", "OverflowError"}}
    \cup {[fault |-> "none", has_birthtime |-> FALSE, st_birthtime |-> 0, st_mtime |-> t] :
            t \in Timestamps}
    \cup {[fault |-> "none", has_birthtime |-> TRUE, st_birthtime |-> t,
           st_mtime |-> 1708424100] : t \in Timestamps}

-----------------------------------------------------------------------------
(* get_file_creation_date, one action for each step of the chain           *)

\* the stages as the log of calls names them
MetadataStages == <<"extractor", "extract_exif_data", "extract_exif_via_pillow",
                    "extract_xmp_date">>

\* the log after stage returned or raised outcome
Invoked(log, stage, outcome) ==
    Append(log, [stage |-> stage, raised |-> outcome.raised, out |-> outcome.value])

ResolverIdle ==
    /\ pc = "idle"
    /\ file_path = <<>>
    /\ metadata_date = None
    /\ filename_date = None
    /\ result = None
    /\ calls = <<>>
    /\ raised = "none"
    /\ mismatch_warned = FALSE
    /\ handles = [open |-> {}, last |-> <<>>]
    /\ heif_registered = FALSE

\* the modules are imported: ffprobe is on the PATH or not, pillow-heif is
\* not registered yet, and no file is being resolved
Init ==
    /\ tick = 0
    /\ GuiIdle
    /\ ffprobe_bin \in BOOLEAN
    /\ ResolverIdle
    /\ ValidatorIdle
    /\ StagesIdle
    /\ OrganizerIdle

\* get_file_creation_date(file_path) is called: lines 163-165
GetFileCreationDate ==
    /\ pc \in {"idle", "returned", "raised"}
    /\ opc = "off"
    /\ \E f \in Files : file_path' = f
    /\ metadata_date' = None
    /\ filename_date' = None
    /\ result' = None
    /\ calls' = <<>>
    /\ raised' = "none"
    /\ mismatch_warned' = FALSE
    /\ handles' = [open |-> {}, last |-> <<>>]
    /\ pc' = "step1"
    /\ UNCHANGED <<gvars, ovars, tick, vvars, svars, heif_registered, ffprobe_bin>>

\* every stage runs whether or not a date was found: not what the code does
NoMetadataYet_always(date) == TRUE

\* "if not metadata_date"
NoMetadataYet(date) == ~truthy(date)

\* a metadata stage has returned or raised: "if date: metadata_date = date",
\* and an exception leaves get_file_creation_date
Staged(stage, outcome, next) ==
    /\ calls' = Invoked(calls, stage, outcome)
    /\ IF outcome.raised # "none"
       THEN /\ pc' = "raised"
            /\ raised' = outcome.raised
            /\ UNCHANGED metadata_date
       ELSE /\ pc' = next
            /\ metadata_date' = (IF truthy(outcome.value) THEN outcome.value
                                 ELSE metadata_date)
            /\ UNCHANGED raised

\* the stages whose handle is open after the events of trace
RECURSIVE OpenAfter(_, _)
OpenAfter(open, trace) ==
    IF trace = <<>> THEN open
    ELSE OpenAfter(IF Head(trace).op = "open" THEN open \cup {Head(trace).by}
                   ELSE open \ {Head(trace).by},
                   Tail(trace))

\* a stage has opened and closed the handles of trace
Handled(trace) ==
    handles' = [open |-> OpenAfter(handles.open, trace), last |-> trace]

\* a stage is skipped
Skipped(next) ==
    /\ pc' = next
    /\ Handled(<<>>)
    /\ UNCHANGED <<calls, metadata_date, raised>>

\* the extractor registered for file_ext is called on a file
Extract(file_ext) ==
    \/ /\ file_ext \in PIL_INFO_EXTENSIONS
       /\ \E img \in PilImages, opened \in BOOLEAN :
            /\ opened \in Obtained(img.fault)
            /\ Staged("extractor", extract_pil_creation_date(img, wall_clock), "step2")
            /\ Handled(WithHandle("extractor", opened, img.fault))
       /\ UNCHANGED heif_registered
    \/ /\ file_ext \in PIL_EXIF_EXTENSIONS
       /\ \E img \in PilImages, opened \in BOOLEAN :
            /\ opened \in Obtained(img.fault)
            /\ Staged("extractor", extract_pil_exif_date(img, wall_clock), "step2")
            /\ Handled(WithHandle("extractor", opened, img.fault))
       /\ UNCHANGED heif_registered
    \/ /\ file_ext \in BMP_EXTENSIONS
       /\ Staged("extractor", extract_bmp_creation_date, "step2")
       /\ Handled(<<>>)
       /\ UNCHANGED heif_registered
    \/ /\ file_ext \in RAW_EXTRACTORS
       /\ \E img \in Images({"ImportError", "OSError", "AttributeError"}),
             opened \in BOOLEAN :
            /\ opened \in Obtained(img.fault)
            /\ Staged("extractor", extract_raw_creation_date(img, wall_clock), "step2")
            /\ Handled(WithHandle("extractor", opened, img.fault))
       /\ UNCHANGED heif_registered
    \/ /\ file_ext \in HEIF_EXTRACTORS
       /\ \E img \in HeifImages, opened \in BOOLEAN :
            /\ opened \in Obtained(img.fault)
            /\ opened => ensure_heif_support(heif_registered, img.installed)
            /\ Staged("extractor",
                      extract_heif_creation_date(heif_registered, img, wall_clock),
                      "step2")
            /\ Handled(WithHandle("extractor", opened, img.fault))
            /\ heif_registered' = ensure_heif_support(heif_registered, img.installed)
    \/ /\ file_ext \in VIDEO_EXTRACTORS
       /\ \E video \in Videos, opened \in BOOLEAN :
            /\ opened \in HachoirObtained(video.hachoir)
            /\ opened => Len(extract_video_creation_date_calls(ffprobe_bin, video,
                                                                wall_clock)) = 2
            /\ Staged("extractor",
                      extract_video_creation_date(ffprobe_bin, video, wall_clock), "step2")
            /\ Handled(WithHandle("extractor", opened, video.hachoir.fault))
       /\ UNCHANGED heif_registered

\* Step 1, lines 167-172: the registered extractor, called outside any try
Step1 ==
    /\ pc = "step1"
    /\ IF FileExt(file_path) \in FILE_TYPE_EXTRACTORS
       THEN Extract(FileExt(file_path))
       ELSE Skipped("step2") /\ UNCHANGED heif_registered
    /\ UNCHANGED <<gvars, ovars, tick, vvars, svars, ffprobe_bin, file_path, filename_date, result,
                   mismatch_warned>>

\* "except (OSError, IOError, ValueError)" of line 185 around the stage
Except185(outcome) ==
    IF outcome.raised \in OSError_ValueError THEN Return(None) ELSE outcome

\* Step 2, lines 178-186: open the file and call extract_exif_data
Step2 ==
    /\ pc = "step2"
    /\ IF NoMetadataYet(metadata_date) /\ ~is_video(FileExt(file_path))
       THEN \/ \* open(file_path, "rb") raises OSError, caught on line 185
               Skipped("step3")
            \/ \E img \in ExifImages :
                 /\ Staged("extract_exif_data",
                           Except185(extract_exif_data(img, wall_clock)), "step3")
                 /\ Handled(WithHandle("extract_exif_data", TRUE,
                                       extract_exif_data(img, wall_clock).raised))
       ELSE Skipped("step3")
    /\ UNCHANGED <<gvars, ovars, tick, vvars, svars, ffprobe_bin, heif_registered, file_path, filename_date,
                   result, mismatch_warned>>

\* Step 3, lines 188-192: extract_exif_via_pillow
Step3 ==
    /\ pc = "step3"
    /\ IF NoMetadataYet(metadata_date) /\ ~is_video(FileExt(file_path))
       THEN \E img \in Images({"OSError", "DecompressionBombError"}),
                opened \in BOOLEAN :
                 /\ opened \in Obtained(img.fault)
                 /\ Staged("extract_exif_via_pillow",
                           extract_exif_via_pillow(img, wall_clock), "step4")
                 /\ Handled(WithHandle("extract_exif_via_pillow", opened, img.fault))
       ELSE Skipped("step4")
    /\ UNCHANGED <<gvars, ovars, tick, vvars, svars, ffprobe_bin, heif_registered, file_path, filename_date,
                   result, mismatch_warned>>

\* Step 4, lines 194-198: extract_xmp_date
Step4 ==
    /\ pc = "step4"
    /\ IF NoMetadataYet(metadata_date)
       THEN \E xmp \in XmpPackets, opened \in BOOLEAN :
                 /\ opened \in Obtained(xmp.fault)
                 /\ Staged("extract_xmp_date", extract_xmp_date(xmp, wall_clock), "step5")
                 /\ Handled(WithHandle("extract_xmp_date", opened, xmp.fault))
       ELSE Skipped("step5")
    /\ UNCHANGED <<gvars, ovars, tick, vvars, svars, ffprobe_bin, heif_registered, file_path, filename_date,
                   result, mismatch_warned>>

\* line 201 calls extract_date_from_filename when metadata_date is known and
\* only then skips it: not what the code does
Step5Calls_unless_found(date, filename, now) ==
    IF truthy(date) THEN <<>> ELSE <<Return(extract_date_from_filename(filename, now))>>

\* the calls line 201 makes, metadata_date being date: one, under no
\* condition
Step5Calls(date, filename, now) ==
    <<Return(extract_date_from_filename(filename, now))>>

\* the date the filename is preferred: not what the code does
Preferred_filename(meta, name) == IF truthy(name) THEN name ELSE meta

\* lines 205-218: the metadata date if there is one, else the filename date
Preferred(meta, name) == IF truthy(meta) THEN meta ELSE name

\* the filesystem is consulted whenever there is no metadata date: not
\* what the code does
FallsToFilesystem_without_metadata(meta, name) == ~truthy(meta)

\* lines 205-220: Step 6 is reached when neither date exists
FallsToFilesystem(meta, name) == ~truthy(meta) /\ ~truthy(name)

\* lines 203-218 with the outcomes of the calls of line 201 and the
\* filename date they gave
Decide(outcomes, name_date) ==
    /\ calls' = calls \o [k \in 1..Len(outcomes) |->
                            [stage |-> "extract_date_from_filename",
                             raised |-> outcomes[k].raised, out |-> outcomes[k].value]]
    /\ filename_date' = name_date
    /\ mismatch_warned' = (/\ truthy(metadata_date)
                           /\ truthy(name_date)
                           /\ cross_reference_dates(metadata_date, name_date))
    /\ IF FallsToFilesystem(metadata_date, name_date)
       THEN pc' = "step6" /\ UNCHANGED result
       ELSE pc' = "returned" /\ result' = Preferred(metadata_date, name_date)

LastValue(outcomes) ==
    IF outcomes = <<>> THEN None ELSE outcomes[Len(outcomes)].value

\* Step 5, lines 200-218: the filename parser, the cross-reference, and the
\* return of a metadata or filename date
Step5 ==
    /\ pc = "step5"
    /\ Decide(Step5Calls(metadata_date, basename(file_path), wall_clock),
              LastValue(Step5Calls(metadata_date, basename(file_path), wall_clock)))
    /\ Handled(<<>>)
    /\ UNCHANGED <<gvars, ovars, tick, vvars, svars, ffprobe_bin, heif_registered, file_path, metadata_date,
                   raised>>

\* lines 222-230 with the outcome of get_filesystem_date
Finish(outcome) ==
    /\ calls' = Invoked(calls, "get_filesystem_date", outcome)
    /\ result' = (IF truthy(outcome.value) THEN outcome.value ELSE None)
    /\ pc' = "returned"

\* Step 6, lines 220-230: get_filesystem_date
Step6 ==
    /\ pc = "step6"
    /\ \E stat \in Stats : Finish(get_filesystem_date(stat, wall_clock))
    /\ Handled(<<>>)
    /\ UNCHANGED <<gvars, ovars, tick, vvars, svars, ffprobe_bin, heif_registered, file_path, metadata_date,
                   filename_date, raised, mismatch_warned>>

\* the turn of organize on the file at path, alone in the origin tree, with
\* what get_file_creation_date gave for it
TurnOn(path, o) ==
    /\ \E io \in MoveFaults, h \in ErrorFaults :
          Took(path, Resolving(Line413(path :> path, path, o, io, h)), Counts(1, 0, 0, 0),
               o.raised = "none" /\ truthy(o.value))
    /\ tree' = (path :> o)

\* organize called get_file_creation_date on line 413 of its turn on the
\* file: lines 415-452 with what the call returned or raised
OrganizeTurn ==
    /\ pc \in {"returned", "raised"}
    /\ opc = "off"
    /\ TurnOn(OriginDir \o <<basename(file_path)>>, [raised |-> raised, value |-> result])
    /\ UNCHANGED <<gvars, tick, vvars, svars, ffprobe_bin, heif_registered, file_path, metadata_date,
                   filename_date, result, raised, calls, mismatch_warned, handles, pc, dirs,
                   todo, empty_dirs, summary>>

Next ==
    \/ GetFileCreationDate
    \/ OrganizeTurn
    \/ Step1
    \/ Step2
    \/ Step3
    \/ Step4
    \/ Step5
    \/ Step6
    \/ (Tick /\ UNCHANGED <<gvars, ovars, vvars, rvars, svars>>)

Spec == Init /\ [][Next]_vars

-----------------------------------------------------------------------------
(* Date strings handed to validate_date: a date and time written in one of *)
(* the notations cameras and XMP writers use, with or without a timezone   *)
(* suffix and surrounding blanks, and some strings that are no date.       *)

BaseDts == {
    Dt(2023, 1, 15, 10, 30, 0, 0),
    Dt(1990, 1, 1, 0, 0, 0, 0),            \* the first accepted second
    Dt(1989, 12, 31, 23, 59, 59, 0),       \* the last rejected second
    Dt(2024, 2, 29, 10, 30, 0, 0),         \* before T0 + 1 day
    Dt(2024, 2, 29, 10, 30, 0, 250000),    \* T0 + 1 day exactly
    Dt(2024, 2, 29, 10, 30, 0, 250001),    \* T0 + 1 day + 1 microsecond
    Dt(2024, 2, 29, 10, 30, 1, 250000),    \* T0 + 1 day + 1 second
    Dt(2029, 1, 1, 0, 0, 0, 0),            \* years ahead
    Dt(2023, 2, 29, 10, 30, 0, 0),         \* no such day
    Dt(2023, 13, 1, 10, 30, 0, 0),         \* no such month
    Dt(2023, 1, 15, 10, 30, 60, 0),        \* no such second
    Dt(1970, 1, 1, 0, 0, 0, 0),            \* the Unix epoch placeholder
    Dt(1970, 1, 1, 0, 0, 1, 0),
    Dt(0, 0, 0, 0, 0, 0, 0) }              \* the all-zero placeholder

Styles == {"exif", "iso", "isoT", "isoTf", "isodate", "exifdate"}

NoSuffix == <<>>

\* timezone suffixes: Z and +HH:MM / -HH:MM
Offsets == {
    <<"Z">>,
    <<"+", "0", "5", ":", "3", "0">>,
    <<"-", "0", "8", ":", "0", "0">> }

\* other endings: an offset without colon, a doubled suffix
OtherSuffixes == {
    <<"+", "0", "5", "3", "0">>,
    <<"Z", "Z">>,
    <<"+", "0", "5", ":", "3", "0", "+", "0", "5", ":", "3", "0">> }

Suffixes == {NoSuffix} \cup Offsets \cup OtherSuffixes

TimeOfDay(dt) ==
    Pad(dt.hour, 2) \o <<":">> \o Pad(dt.minute, 2) \o <<":">> \o Pad(dt.second, 2)

\* dt written in the given notation, then the suffix, all between blanks if pad
Written(dt, style, sfx, pad) ==
    LET dash == Pad(dt.year, 4) \o <<"-">> \o Pad(dt.month, 2) \o <<"-">> \o Pad(dt.day, 2)
        colon == Pad(dt.year, 4) \o <<":">> \o Pad(dt.month, 2) \o <<":">> \o Pad(dt.day, 2)
        body == CASE style = "exif" -> colon \o <<" ">> \o TimeOfDay(dt)
                  [] style = "iso" -> dash \o <<" ">> \o TimeOfDay(dt)
                  [] style = "isoT" -> dash \o <<"T">> \o TimeOfDay(dt)
                  [] style = "isoTf" -> dash \o <<"T">> \o TimeOfDay(dt)
                                        \o <<".">> \o Pad(dt.microsecond, 6)
                  [] style = "isodate" -> dash
                  [] style = "exifdate" -> colon
    IN IF pad THEN <<" ">> \o body \o sfx \o <<" ", " ">> ELSE body \o sfx

DateParts == [dt : BaseDts, style : Styles, sfx : Suffixes, pad : BOOLEAN]

\* strings that are no date, and None
Junk == {
    None,
    <<>>,
    <<" ", " ">>,
    <<"Z">>,
    <<"n", "o", " ", "d", "a", "t", "e">>,
    <<"2", "0", "2", "3", "-", "0", "1">> }

JunkParts(s) == [dt |-> NoDt, style |-> "junk", sfx |-> s, pad |-> FALSE]

-----------------------------------------------------------------------------
(* validate_date, called on a date string and again on its own result      *)

InitValidate ==
    /\ tick = 0
    /\ GuiIdle
    /\ ffprobe_bin = FALSE
    /\ ResolverIdle
    /\ StagesIdle
    /\ OrganizerIdle
    /\ \/ \E p \in DateParts :
            /\ date_parts = p
            /\ date_string = Written(p.dt, p.style, p.sfx, p.pad)
       \/ \E s \in Junk :
            /\ date_parts = JunkParts(s)
            /\ date_string = s
    /\ validated = None
    /\ validated_at = 0
    /\ first_at = 0
    /\ recursions = 0
    /\ vpc = "input"

\* validate_date(date_string)
Validate ==
    /\ vpc = "input"
    /\ validated' = validate_date(date_string, wall_clock)
    /\ validated_at' = tick
    /\ first_at' = tick
    /\ recursions' = ValidateRecursions(date_string)
    /\ vpc' = "validated"
    /\ UNCHANGED <<gvars, ovars, tick, date_string, date_parts, rvars, svars>>

\* validate_date(d) for the d the first call returned
Revalidate ==
    /\ vpc = "validated"
    /\ validated # None
    /\ date_string' = validated
    /\ date_parts' = JunkParts(validated)
    /\ validated' = validate_date(validated, wall_clock)
    /\ validated_at' = tick
    /\ recursions' = ValidateRecursions(validated)
    /\ vpc' = "revalidated"
    /\ UNCHANGED <<gvars, ovars, tick, first_at, rvars, svars>>

NextValidate ==
    \/ Validate
    \/ Revalidate
    \/ (Tick /\ UNCHANGED <<gvars, ovars, vvars, rvars, svars>>)

SpecValidate == InitValidate /\ [][NextValidate]_vars

-----------------------------------------------------------------------------
(* File names handed to extract_date_from_filename: a date and a time in   *)
(* the layout of one of the naming conventions its docstring lists         *)

\* <<year, month, day>> as written: in range, the first valid day, the last
\* day before 1990, month 13, February 30, the day after T0, a day further,
\* and zeros
NameDates == {
    <<<<"2", "0", "2", "4">>, <<"0", "2">>, <<"2", "0">>>>,
    <<<<"1", "9", "9", "0">>, <<"0", "1">>, <<"0", "1">>>>,
    <<<<"1", "9", "8", "9">>, <<"1", "2">>, <<"3", "1">>>>,
    <<<<"2", "0", "2", "4">>, <<"1", "3">>, <<"2", "0">>>>,
    <<<<"2", "0", "2", "4">>, <<"0", "2">>, <<"3", "0">>>>,
    <<<<"2", "0", "2", "4">>, <<"0", "2">>, <<"2", "9">>>>,
    <<<<"2", "0", "2", "4">>, <<"0", "3">>, <<"0", "1">>>>,
    <<<<"0", "0", "0", "0">>, <<"0", "0">>, <<"0", "0">>>> }

\* <<hour, minute, second>> as written: the last one below is the second
\* after T0's, then hour 25 and second 60
NameTimes == {
    <<<<"1", "0">>, <<"1", "5">>, <<"0", "0">>>>,
    <<<<"1", "0">>, <<"3", "0">>, <<"0", "0">>>>,
    <<<<"1", "0">>, <<"3", "0">>, <<"0", "1">>>>,
    <<<<"2", "5">>, <<"0", "0">>, <<"0", "0">>>>,
    <<<<"2", "3">>, <<"5", "9">>, <<"6", "0">>>> }

\* layouts with a time ...
TimedLayouts == {"android", "whatsapp", "macos", "isoish", "signal"}

\* ... and with a date alone
DateLayouts == {"compact", "dashed"}

NamePrefixes == {<<>>, <<"I", "M", "G", "_">>, <<"S", "c", "r", "e", "e", "n", "s", "h", "o",
        "t", " ">>, <<"s", "i", "g", "n", "a", "l", "-">>}

NameExtensions == {<<>>, <<".", "j", "p", "g">>}

\* the date and time d, t written in layout
Body(layout, d, t) ==
    CASE layout = "android" ->
            d[1] \o d[2] \o d[3] \o <<"_">> \o t[1] \o t[2] \o t[3]
      [] layout = "whatsapp" ->
            d[1] \o d[2] \o d[3] \o <<"-">> \o t[1] \o t[2] \o t[3]
      [] layout = "macos" ->
            d[1] \o <<"-">> \o d[2] \o <<"-">> \o d[3] \o <<" ", "a", "t", " ">>
            \o t[1] \o <<".">> \o t[2] \o <<".">> \o t[3]
      [] layout = "isoish" ->
            d[1] \o <<"-">> \o d[2] \o <<"-">> \o d[3] \o <<"_">>
            \o t[1] \o <<"-">> \o t[2] \o <<"-">> \o t[3]
      [] layout = "signal" ->
            d[1] \o <<"-">> \o d[2] \o <<"-">> \o d[3] \o <<"-">> \o t[1] \o t[2] \o t[3]
      [] layout = "compact" -> d[1] \o d[2] \o d[3]
      [] layout = "dashed" -> d[1] \o <<"-">> \o d[2] \o <<"-">> \o d[3]

NoTime == <<<<>>, <<>>, <<>>>>

\* a file name and how it was written
Named(prefix, layout, d, t, ext) ==
    [kind |-> "filename", layout |-> layout, date |-> d, time |-> t, ext |-> ext,
     filename |-> prefix \o Body(layout, d, t) \o ext]

\* names that spell two dates: first one that validate_date rejects, of 1989
\* or two days after T0, in the layout of tier 1, then 2024-02-20 10:15:00
\* in the layout of tier 1 or of tier 2
FirstDates ==
    {<<<<"1", "9", "8", "9">>, <<"1", "2">>, <<"3", "1">>>>,
     <<<<"2", "0", "2", "4">>, <<"0", "3">>, <<"0", "1">>>>}

SecondDate == <<<<"2", "0", "2", "4">>, <<"0", "2">>, <<"2", "0">>>>
QuarterPastTen == <<<<"1", "0">>, <<"1", "5">>, <<"0", "0">>>>

GivenTwice ==
    {[kind |-> "filename", layout |-> "twice", date |-> d, time |-> QuarterPastTen,
      ext |-> <<".", "j", "p", "g">>, then |-> l,
      filename |-> Body("android", d, QuarterPastTen) \o <<"_">>
                   \o Body(l, SecondDate, QuarterPastTen) \o <<".", "j", "p", "g">>] :
        d \in FirstDates, l \in {"android", "macos"}}

GivenNames ==
    GivenTwice
    \cup {Named(p, l, d, t, e) : p \in NamePrefixes, l \in TimedLayouts, d \in NameDates,
                            t \in NameTimes, e \in NameExtensions}
    \cup {Named(p, l, d, NoTime, e) : p \in NamePrefixes, l \in DateLayouts,
                                      d \in NameDates, e \in NameExtensions}
    \cup {[kind |-> "filename", layout |-> "none", date |-> <<>>, time |-> NoTime,
           ext |-> <<".", "j", "p", "g">>, filename |-> <<"h", "o", "l", "i", "d", "a", "y", ".", "j", "p", "g">>]}

-----------------------------------------------------------------------------
(* XMP packets given to extract_xmp_date                                   *)

\* how a tag is written in the packet: not at all, as an element with a
\* date of 2024, with a date of 1985, with the all-zero date, or as an
\* attribute  tag="2024-..."
TagForms == {"absent", "valid", "old", "placeholder", "attribute"}

\* the day of February 2024 each tag carries, so that a result names its tag
TagDay(tag) ==
    CASE tag = "exif:DateTimeOriginal" -> <<"2", "1">>
      [] tag = "photoshop:DateCreated" -> <<"2", "2">>
      [] tag = "xmp:CreateDate" -> <<"2", "3">>
      [] tag = "xmp:ModifyDate" -> <<"2", "4">>

\* Photoshop writes the zone after the time
TagZone(tag) == IF tag = "photoshop:DateCreated" THEN <<"+", "0", "5", ":", "3", "0">> ELSE <<>>

TagText(tag, form) ==
    CASE form = "valid" ->
            <<">", "2", "0", "2", "4", "-", "0", "2", "-">> \o TagDay(tag) \o <<"T", "1", "0",
                    ":", "1", "5", ":", "0", "0">> \o TagZone(tag) \o <<"<">>
      [] form = "old" -> <<">", "1", "9", "8", "5", "-", "0", "6", "-", "0", "1", "T", "1",
              "2", ":", "0", "0", ":", "0", "0", "<">>
      [] form = "placeholder" -> <<">", "0", "0", "0", "0", ":", "0", "0", ":", "0", "0", " ",
              "0", "0", ":", "0", "0", ":", "0", "0", "<">>
      [] form = "attribute" ->
            <<"=">> \o <<"\"">> \o <<"2", "0", "2", "4", "-", "0", "2",
                    "-">> \o TagDay(tag) \o <<"T", "1", "0", ":", "1", "5", ":", "0",
                            "0">> \o <<"\"">>

\* the element of the packet at the place of tag
WrittenTag(tag, form) ==
    IF form = "absent" THEN [tag |-> "dc:format", text |-> <<">", "i", "m", "a", "g", "e", "/",
            "j", "p", "e", "g", "<">>]
    ELSE [tag |-> tag, text |-> TagText(tag, form)]

\* the orders in which a packet holds the four tags
DocumentOrders ==
    {<<"exif:DateTimeOriginal", "photoshop:DateCreated", "xmp:CreateDate", "xmp:ModifyDate">>,
     <<"xmp:ModifyDate", "xmp:CreateDate", "photoshop:DateCreated", "exif:DateTimeOriginal">>}

XmpTags == {"exif:DateTimeOriginal", "photoshop:DateCreated", "xmp:CreateDate", "xmp:ModifyDate"}

GivenXmp ==
    {[kind |-> "xmp", forms |-> f,
      xmp |-> [fault |-> e, marker |-> m,
               elements |-> [i \in 1..4 |-> WrittenTag(order[i], f[order[i]])]]] :
        f \in [XmpTags -> TagForms], order \in DocumentOrders,
        m \in {"x:xmpmeta", "rdf:RDF", "none"}, e \in {"none"}}
    \cup {[kind |-> "xmp", forms |-> [t \in XmpTags |-> "valid"],
           xmp |-> [fault |-> e, marker |-> "x:xmpmeta",
                    elements |-> [i \in 1..4 |-> WrittenTag(date_patterns[i], "valid")]]] :
            e \in {"OSError", "UnicodeError"}}

-----------------------------------------------------------------------------
(* The stages called on their own                                          *)

\* the optional dependencies of the extractors
OptionalModules == {"pillow_heif", "exifread"}

\* the files a process hands to their extractors, one after the other
MaxFiles == 3

ExtractorFiles ==
    {[ext |-> e, fault |-> "none", tags |-> t] :
        e \in {<<".", "h", "e", "i", "c">>, <<".", "c", "r", "2">>},
        t \in {<<>>, <<SameAsName>>}}

GivenProcesses ==
    {[kind |-> "process", installed |-> m, files |-> f] :
        m \in SUBSET OptionalModules,
        f \in UNION {[1..n -> ExtractorFiles] : n \in 1..MaxFiles}}

\* seconds since the epoch: before it, the epoch, 1971-01-01, the last
\* second of 1989 and the first of 1990, 2024-02-20 10:15:00, one day and
\* one day and a second after T0, and 2030-03-17 17:46:40
StatTimestamps ==
    {-1, 0, 31536000, 631151999, 631152000, 1708424100, 1709202600, 1709202601,
     1900000000}

\* what os.stat gives: an error, or a result with or without st_birthtime
GivenStats ==
    {[kind |-> "filesystem",
      stat |-> [fault |-> f, has_birthtime |-> FALSE, st_birthtime |-> 0,
                st_mtime |-> 1708424100]] : f \in {"OSError", "OverflowError"}}
    \cup {[kind |-> "filesystem",
           stat |-> [fault |-> "none", has_birthtime |-> b, st_birthtime |-> t,
                     st_mtime |-> m]] :
            b \in BOOLEAN, t \in StatTimestamps, m \in StatTimestamps}

\* video files, with ffprobe found at import or not
GivenVideos == {[kind |-> "video", bin |-> b, video |-> v] : b \in BOOLEAN, v \in Videos}

\* calls of move_file_safely: the file at the source, with or without a file
\* of its name in the destination folder, and the source being that file
\* itself, as when a folder is organized into itself; any of the calls that
\* may raise OSError does so
MoveDest == DestinationDir \o <<<<"2", "0", "2", "4">>, <<"0", "2">>>>
MoveSources == {OriginDir \o <<<<"a">>, <<"I", "M", "G", "_", "0", "0", "0", "1", ".", "j",
        "p", "g">>>>, MoveDest \o <<<<"I", "M", "G", "_", "0", "0", "0", "1", ".", "j", "p",
                "g">>>>}

MoveFiles(s) == {(s :> "source"), (s :> "source") @@ (MoveDest \o <<NameOf(s)>> :> "kept")}

GivenMoves ==
    UNION {{[kind |-> "move", source_path |-> s, dest_path |-> MoveDest,
             filename |-> NameOf(s), files |-> f, io |-> io] :
               f \in MoveFiles(s), io \in MoveFaults} : s \in MoveSources}

Givens ==
    GivenNames \cup GivenXmp \cup GivenProcesses \cup GivenVideos \cup GivenStats
    \cup GivenMoves

InitStages ==
    /\ tick = 0
    /\ GuiIdle
    /\ ResolverIdle
    /\ ValidatorIdle
    /\ OrganizerIdle
    /\ given \in Givens
    /\ ffprobe_bin = (given.kind = "video" /\ given.bin)
    /\ got = <<>>
    /\ ran_at = 0
    /\ events = <<>>
    /\ spc = "given"

\* the stage has returned or raised
Ran(o) ==
    /\ got' = o
    /\ ran_at' = tick
    /\ spc' = "done"
    /\ UNCHANGED <<gvars, ovars, tick, given, events, vvars, rvars>>

\* extract_date_from_filename(filename)
RunFilename ==
    /\ spc = "given"
    /\ given.kind = "filename"
    /\ Ran(Return(extract_date_from_filename(given.filename, wall_clock)))

\* extract_xmp_date(file_path)
RunXmp ==
    /\ spc = "given"
    /\ given.kind = "xmp"
    /\ Ran(extract_xmp_date(given.xmp, wall_clock))

\* the calls of extractors made so far
CallEvents == SelectSeq(events, LAMBDA e : e.event = "call")

\* the extractor has returned or raised on the next file of the process
Extracted(file, module, logs, o) ==
    /\ got' = o
    /\ ran_at' = tick
    /\ events' = events \o logs
                  \o <<[event |-> "call", module |-> module, ext |-> file.ext,
                        raised |-> o.raised, out |-> o.value]>>
    /\ spc' = (IF Len(CallEvents) + 1 = Len(given.files) THEN "done" ELSE "given")

\* extract_heif_creation_date(file_path) on a HEIC file
ExtractHeif(file, installed) ==
    /\ file.ext \in HEIF_EXTRACTORS
    /\ Extracted(file, "pillow_heif",
                 ensure_heif_support_logs(heif_registered, installed),
                 extract_heif_creation_date(
                     heif_registered,
                     [installed |-> installed, fault |-> file.fault, tags |-> file.tags],
                     wall_clock))
    /\ heif_registered' = ensure_heif_support(heif_registered, installed)

\* extract_cr2_creation_date(file_path) on a RAW file
ExtractRaw(file, installed) ==
    /\ file.ext \in RAW_EXTRACTORS
    /\ Extracted(file, "exifread",
                 extract_raw_creation_date_logs(installed),
                 extract_raw_creation_date(
                     [fault |-> IF installed THEN file.fault ELSE "ImportError",
                      tags |-> file.tags],
                     wall_clock))
    /\ UNCHANGED heif_registered

\* the process calls the registered extractor on its next file
RunExtractor ==
    /\ spc = "given"
    /\ given.kind = "process"
    /\ \/ ExtractHeif(given.files[Len(CallEvents) + 1], "pillow_heif" \in given.installed)
       \/ ExtractRaw(given.files[Len(CallEvents) + 1], "exifread" \in given.installed)
    /\ UNCHANGED <<gvars, ovars, tick, given, vvars, ffprobe_bin, pc, file_path, metadata_date,
                   filename_date, result, raised, calls, mismatch_warned, handles>>

\* the calls made become events of the process
CallsMade(made) ==
    [i \in 1..Len(made) |->
        [event |-> "call", module |-> made[i].fn, raised |-> made[i].raised,
         out |-> made[i].value]]

\* _extract_video_creation_date(file_path, file_type)
RunVideo ==
    /\ spc = "given"
    /\ given.kind = "video"
    /\ got' = extract_video_creation_date(ffprobe_bin, given.video, wall_clock)
    /\ events' = CallsMade(extract_video_creation_date_calls(ffprobe_bin, given.video,
                                                             wall_clock))
    /\ ran_at' = tick
    /\ spc' = "done"
    /\ UNCHANGED <<gvars, ovars, tick, given, vvars, rvars>>

\* get_filesystem_date(file_path)
RunFilesystem ==
    /\ spc = "given"
    /\ given.kind = "filesystem"
    /\ Ran(get_filesystem_date(given.stat, wall_clock))

\* move_file_safely(source_path, dest_path, filename)
RunMove ==
    /\ spc = "given"
    /\ given.kind = "move"
    /\ Ran(move_file_safely(given.files, given.source_path, given.dest_path,
                            given.filename, given.io))

NextStages ==
    \/ RunFilename
    \/ RunXmp
    \/ RunExtractor
    \/ RunVideo
    \/ RunFilesystem
    \/ RunMove
    \/ (Tick /\ UNCHANGED <<gvars, ovars, vvars, rvars, svars>>)

SpecStages == InitStages /\ [][NextStages]_vars

-----------------------------------------------------------------------------
(* organize: the origin trees it is called on, and its actions             *)

\* the files an origin tree may hold, in two subdirectories: two of one
\* name, and two that FILES_TO_DELETE names in other letters
SourcePaths ==
    {OriginDir \o <<<<"a">>, <<"I", "M", "G", "_", "0", "0", "0", "1", ".", "j", "p", "g">>>>,
            OriginDir \o <<<<"b">>, <<"I", "M", "G", "_", "0", "0", "0", "1", ".", "j", "p",
                    "g">>>>,
     OriginDir \o <<<<"a">>, <<"t", "e", "s", "t", ".", "m", "o", "v">>>>,
             OriginDir \o <<<<"b">>, <<"T", "h", "u", "m", "b", "s", ".", "d", "b">>>>,
     OriginDir \o <<<<"b">>, <<"D", "E", "S", "K", "T", "O", "P">>>>}

\* the most files an origin tree holds
MaxTree == 2

\* a directory of the origin tree that holds nothing but an empty directory
OnlyDirs == OriginDir \o <<<<"e">>>>
EmptyDir == OnlyDirs \o <<<<"f">>>>

\* what get_file_creation_date gives for a file: a date of February 2024 or
\* of November 2023, None, or an exception that leaves it: one that organize
\* does not catch, and one for each of its except clauses
Resolutions ==
    {Return(<<"2", "0", "2", "4", ":", "0", "2", ":", "2", "0", " ", "1", "0", ":", "1", "5",
            ":", "0", "0">>), Return(<<"2", "0", "2", "3", ":", "1", "1", ":", "0", "5", " ",
                    "0", "8", ":", "0", "0", ":", "0", "0">>), Return(None),
     Raise("DecompressionBombError"), Raise("UnpackError"), Raise("OSError")}

\* what may be given for the file at path p: a file that is deleted by its
\* name is never resolved
ResolutionsOf(p) ==
    IF should_skip_file(NameOf(p)) THEN {Return(None)} ELSE Resolutions

\* origin trees of one to MaxTree files, each with what resolving it gives
Trees ==
    UNION {{t \in [S -> Resolutions] : \A p \in S : t[p] \in ResolutionsOf(p)} :
             S \in {T \in SUBSET SourcePaths : Cardinality(T) \in 1..MaxTree}}

\* a file that is in the destination before organize runs, and its content
Before == DestinationDir \o <<<<"2", "0", "2", "4">>, <<"0", "2">>, <<"I", "M", "G", "_", "0",
        "0", "0", "1", ".", "j", "p", "g">>>>
BeforeContent == <<<<"b", "e", "f", "o", "r", "e">>>>

\* the files on disk, each with its content: the content of a file of the
\* origin tree is named by its first path
InitialFs(t, pre) ==
    [p \in DOMAIN t \cup (IF pre THEN {Before} ELSE {}) |->
        IF p \in DOMAIN t THEN p ELSE BeforeContent]

\* the directories of the origin tree: the origin, those that hold the files
\* of t, and OnlyDirs with EmptyDir in it
InitialDirs(t) == {OriginDir, OnlyDirs, EmptyDir} \cup {Parent(p) : p \in DOMAIN t}

\* the orders in which the directories of S may be listed
Orders(S) ==
    {seq \in [1..Cardinality(S) -> S] :
        \A i, j \in 1..Cardinality(S) : i # j => seq[i] # seq[j]}

\* directory a lies above directory b
IsAncestor(a, b) == Len(a) < Len(b) /\ SubSeq(b, 1, Len(a)) = a

\* os.walk(top, topdown=False) yields a directory after its subdirectories:
\* not what the code asks for
BottomUp(seq) ==
    \A i, j \in DOMAIN seq : i < j => ~IsAncestor(seq[i], seq[j])

\* os.walk(top) yields a directory before its subdirectories
TopDown(seq) ==
    \A i, j \in DOMAIN seq : i < j => ~IsAncestor(seq[j], seq[i])

\* os.rmdir(d) raises OSError: d holds something, or d is one of denied
Refuses(files, ds, d, denied) == Holds(files, ds, d) \/ d \in denied

\* the try is around the loop, which the first OSError ends: not what the
\* code does
RECURSIVE RemoveEach_until_refused(_, _, _, _, _)
RemoveEach_until_refused(files, ds, seq, denied, refused) ==
    IF seq = <<>> THEN [dirs |-> ds, refused |-> refused]
    ELSE IF Refuses(files, ds, Head(seq), denied)
    THEN [dirs |-> ds, refused |-> refused \cup {Head(seq)}]
    ELSE RemoveEach_until_refused(files, ds \ {Head(seq)}, Tail(seq), denied, refused)

\* lines 376-381: os.rmdir on each directory of seq in turn, the try inside
\* the loop; the directories afterwards and those os.rmdir refused
RECURSIVE RemoveEach(_, _, _, _, _)
RemoveEach(files, ds, seq, denied, refused) ==
    IF seq = <<>> THEN [dirs |-> ds, refused |-> refused]
    ELSE IF Refuses(files, ds, Head(seq), denied)
    THEN RemoveEach(files, ds, Tail(seq), denied, refused \cup {Head(seq)})
    ELSE RemoveEach(files, ds \ {Head(seq)}, Tail(seq), denied, refused)

\* lines 379 and 381: what is logged for each directory of seq
RemovalLog(seq, refused) ==
    [d \in {seq[i] : i \in DOMAIN seq} |->
        IF d \in refused THEN <<"warning:381">> ELSE <<"info:379">>]

\* lines 376-381 with what the loop gave
Removed(seq, r) ==
    /\ empty_dirs' = seq
    /\ dirs' = r.dirs
    /\ olog' = RemovalLog(seq, r.refused) @@ olog

InitOrganize ==
    /\ tick = 0
    /\ GuiIdle
    /\ ffprobe_bin = FALSE
    /\ ResolverIdle
    /\ ValidatorIdle
    /\ StagesIdle
    /\ tree \in Trees
    /\ \E pre \in BOOLEAN : fs = InitialFs(tree, pre)
    /\ dirs = InitialDirs(tree)
    /\ todo = {}
    /\ failed = {}
    /\ empty_dirs = <<>>
    /\ count = Counts(0, 0, 0, 0)
    /\ olog = [p \in DOMAIN tree |-> <<>>]
    /\ summary = <<>>
    /\ oraised = "none"
    /\ opc = "idle"

\* organize(origin_dir, destination_dir) is called, lines 359-386: os.walk
\* collects the files of the origin tree and the directories without files,
\* and these directories are removed where os.rmdir allows it
Organize ==
    /\ opc = "idle"
    /\ todo' = DOMAIN tree
    /\ \E seq \in Orders({d \in dirs : FilesIn(fs, d) = {}}),
          denied \in SUBSET {d \in dirs : ~Holds(fs, dirs, d)} :
            /\ TopDown(seq)
            /\ Removed(seq, RemoveEach(fs, dirs, seq, denied, {}))
    /\ count' = Counts(Cardinality(DOMAIN tree), 0, 0, 0)
    /\ opc' = "loop"
    /\ UNCHANGED <<gvars, tick, vvars, rvars, svars, fs, tree, failed, summary, oraised>>

\* one turn of the loop of lines 388-452, on any of the collected files
ProcessFile ==
    /\ opc = "loop"
    /\ \E src \in todo :
          /\ todo' = todo \ {src}
          /\ IF should_skip_file(NameOf(src))
             THEN \E io \in {"none", "os.remove"} :
                     Took(src, Line392(fs, src, io), count, FALSE)
             ELSE \E io \in MoveFaults, h \in ErrorFaults :
                     Took(src, Resolving(Line413(fs, src, tree[src], io, h)), count,
                          tree[src].raised = "none" /\ truthy(tree[src].value))
    /\ UNCHANGED <<gvars, tick, vvars, rvars, svars, tree, dirs, empty_dirs, summary>>

\* lines 454-465: the loop is over, the summary is logged and reported, and
\* organize returns
OrganizeReturns ==
    /\ opc = "loop"
    /\ todo = {}
    /\ summary' = <<count.processed_count, count.moved_count, count.error_count>>
    /\ opc' = "returned"
    /\ UNCHANGED <<gvars, tick, vvars, rvars, svars, fs, dirs, todo, tree, failed, empty_dirs,
                   count, olog, oraised>>

NextOrganize ==
    \/ Organize
    \/ ProcessFile
    \/ OrganizeReturns

SpecOrganize == InitOrganize /\ [][NextOrganize]_vars

-----------------------------------------------------------------------------
(* gui/photo_organizer_gui.py: the window and its worker threads.  The     *)
(* slots run on the GUI thread, one queued signal at a time; the run of a  *)
(* worker is a thread of its own, whose steps interleave with them.        *)

\* the OrganizerWorker threads started while the window is open, at most
MaxRuns == 2

nongui == <<tick, vvars, rvars, svars, ovars>>

\* the signals emitted by the thread w are posted to the GUI thread
Emit(w, signals) ==
    posted' = posted \o [i \in 1..Len(signals) |-> [sender |-> w, signal |-> signals[i][1],
                                                     message |-> signals[i][2]]]

\* the GUI thread has called what, in the slot by
Did(what, by) == did' = Append(did, [call |-> what, by |-> by])

\* validate_inputs and os.makedirs of the destination: what start_organizing
\* finds
Inputs == {"valid", "invalid", "os.makedirs raises"}

\* start_organizing, lines 383-414, on a click of the button, which takes an
\* enabled button and no modal message box in front of the window
StartOrganizing ==
    /\ organize_btn
    /\ dialogs = 0
    /\ \E inputs \in Inputs :
          IF inputs # "valid"
          THEN /\ dialogs' = dialogs + 1
               /\ UNCHANGED <<organize_btn, worker, threads, posted, level, progress_label,
                              did>>
          ELSE /\ Len(threads) < MaxRuns
               /\ organize_btn' = FALSE
               /\ threads' = Append(threads, [pc |-> "started", emitted |-> <<>>])
               /\ worker' = Len(threads) + 1
               /\ did' = did \o <<[call |-> "setEnabled(False)", by |-> "start_organizing"],
                                   [call |-> "worker.start()", by |-> "start_organizing"]>>
               /\ UNCHANGED <<posted, level, dialogs, progress_label>>
    /\ UNCHANGED nongui

\* the user closes the message box in front
Dismiss ==
    /\ dialogs > 0
    /\ dialogs' = dialogs - 1
    /\ UNCHANGED <<nongui, organize_btn, worker, threads, posted, level, progress_label, did>>

\* a slot that ends the organization: the button is enabled and a message
\* box is shown
Ended(by) ==
    /\ posted' = Tail(posted)
    /\ organize_btn' = TRUE
    /\ progress_label' = ""
    /\ Did("setEnabled(True)", by)
    /\ dialogs' = dialogs + 1
    /\ UNCHANGED <<nongui, worker, threads, level>>

\* on_organization_finished, lines 416-426
OnOrganizationFinished ==
    /\ posted # <<>>
    /\ Head(posted).signal = "finished"
    /\ Ended("on_organization_finished")

\* on_organization_error, lines 427-453
OnOrganizationError ==
    /\ posted # <<>>
    /\ Head(posted).signal = "error"
    /\ Ended("on_organization_error")

\* on_progress_update, lines 455-467
OnProgressUpdate ==
    /\ posted # <<>>
    /\ Head(posted).signal = "progress"
    /\ posted' = Tail(posted)
    /\ progress_label' = Head(posted).message
    /\ UNCHANGED <<nongui, organize_btn, worker, threads, level, dialogs, did>>

\* the thread w goes on to pc, having emitted signals
Step(w, to, signals) ==
    /\ threads' = [threads EXCEPT ![w].pc = to,
                                  ![w].emitted = @ \o [i \in 1..Len(signals) |->
                                                          signals[i][1]]]
    /\ Emit(w, signals)
    /\ UNCHANGED <<nongui, organize_btn, worker, dialogs, progress_label, did>>

\* OrganizerWorker.run, lines 158-162
RunStarts ==
    \E w \in DOMAIN threads :
        /\ threads[w].pc = "started"
        /\ level' = "WARNING"
        /\ Step(w, "organize", <<<<"progress", "Starting photo organization...">>>>)

\* run, lines 164-172: organize returns
RunReturns ==
    \E w \in DOMAIN threads :
        /\ threads[w].pc = "organize"
        /\ Step(w, "finally",
                <<<<"progress", "Photo organization completed successfully!">>,
                  <<"finished", "">>>>)
        /\ UNCHANGED level

\* run, lines 174-178: organize raises an Exception
RunRaises ==
    \E w \in DOMAIN threads :
        /\ threads[w].pc = "organize"
        /\ Step(w, "finally",
                <<<<"progress", "Error during photo organization">>, <<"error", "">>>>)
        /\ UNCHANGED level

\* run, lines 179-181: the finally clause, after which the thread ends
RunFinally ==
    \E w \in DOMAIN threads :
        /\ threads[w].pc = "finally"
        /\ level' = "INFO"
        /\ Step(w, "ended", <<>>)

InitGui ==
    /\ tick = 0
    /\ ffprobe_bin = FALSE
    /\ ResolverIdle
    /\ ValidatorIdle
    /\ StagesIdle
    /\ OrganizerIdle
    /\ GuiIdle

NextGui ==
    \/ StartOrganizing
    \/ Dismiss
    \/ OnOrganizationFinished
    \/ OnOrganizationError
    \/ OnProgressUpdate
    \/ RunStarts
    \/ RunReturns
    \/ RunRaises
    \/ RunFinally

SpecGui == InitGui /\ [][NextGui]_vars

-----------------------------------------------------------------------------
(* validate_date: the claims                                               *)

\* the argument of the first call had no date in it: None, empty or blank
IsBlank(s) == s = None \/ strip(s) = <<>>

\* the stripped argument starts with a garbage pattern
HasGarbagePrefix(s) == \E p \in GARBAGE_DATE_PATTERNS : startswith(strip(s), p)

\* dt is strictly later than clock + 1 day: by the day count, then by the
\* second of the day, then by the microsecond
LaterThanGrace(dt, clock) ==
    \/ ToOrdinal(dt) > ToOrdinal(clock) + 1
    \/ /\ ToOrdinal(dt) = ToOrdinal(clock) + 1
       /\ \/ SecondOfDay(dt) > SecondOfDay(clock)
          \/ /\ SecondOfDay(dt) = SecondOfDay(clock)
             /\ dt.microsecond > clock.microsecond

\* the cases in which validate_date is to return None
Rejected(s, clock) ==
    \/ IsBlank(s)
    \/ HasGarbagePrefix(s)
    \/ parse_date_flexible(s) = NoDt
    \/ parse_date_flexible(s).year < 1990
    \/ LaterThanGrace(parse_date_flexible(s), clock)

\* C8: validate_date returns None exactly when its argument is None, blank,
\* starts with a garbage pattern, does not parse, parses to a year below 1990 or
\* parses to a time strictly later than now + 1 day; otherwise (year 1990 and a
\* time equal to now + 1 day included) it returns the parsed time as
\* YYYY:MM:DD HH:MM:SS.
C8_ValidateDecides ==
    vpc = "validated" =>
        IF Rejected(date_string, Clock(validated_at))
        THEN validated = None
        ELSE validated = strftime(parse_date_flexible(date_string))

\* C8 witness: a time equal to now + 1 day, to the microsecond, was accepted
C8_Witness ==
    /\ vpc = "validated"
    /\ validated # None
    /\ parse_date_flexible(date_string) = PlusOneDay(Clock(validated_at))

\* C9: validate_date(d) = d for every d that validate_date returned, when the
\* second call is made at the same or a later clock reading.
C9_Idempotent ==
    vpc = "revalidated" => validated = date_string

\* C9 witness: a returned date was validated again, later, and came back unchanged
C9_Witness ==
    /\ vpc = "revalidated"
    /\ validated_at > first_at
    /\ validated # None
    /\ validated = date_string

\* what the date string written from parts p says, offset aside: the fields of
\* p.dt, the time of day being 00:00:00 where the notation has none and the
\* microseconds dropped
FieldsWritten(p) ==
    IF p.style \in {"isodate", "exifdate"}
    THEN Dt(p.dt.year, p.dt.month, p.dt.day, 0, 0, 0, 0)
    ELSE [p.dt EXCEPT !.microsecond = 0]

\* C10: a date string with a timezone suffix (Z, +HH:MM, -HH:MM) validates to
\* what the same string without the suffix validates to, and a date that comes
\* back carries the clock fields as written, not shifted by the offset.
C10_OffsetDiscarded ==
    (vpc = "validated" /\ date_parts.style # "junk" /\ date_parts.sfx \in Offsets) =>
        /\ validated = validate_date(Written(date_parts.dt, date_parts.style,
                                             NoSuffix, date_parts.pad),
                                     Clock(validated_at))
        /\ validated # None => validated = strftime(FieldsWritten(date_parts))

\* C10 witness: 2023-01-15T10:30:00+05:30 gave 2023:01:15 10:30:00
C10_Witness ==
    /\ vpc = "validated"
    /\ date_string = <<"2", "0", "2", "3", "-", "0", "1", "-", "1", "5", "T",
                       "1", "0", ":", "3", "0", ":", "0", "0",
                       "+", "0", "5", ":", "3", "0">>
    /\ validated = <<"2", "0", "2", "3", ":", "0", "1", ":", "1", "5", " ",
                     "1", "0", ":", "3", "0", ":", "0", "0">>

-----------------------------------------------------------------------------
(* get_file_creation_date: the claims, read off the log of calls           *)

\* the places in the log where stage was called
CallsOf(stage) == {k \in 1..Len(calls) : calls[k].stage = stage}

\* the places in the log where a metadata stage was called
MetadataCalls ==
    {k \in 1..Len(calls) : \E r \in 1..Len(MetadataStages) : calls[k].stage = MetadataStages[r]}

\* the place of a metadata stage in the fixed order
Rank(stage) == CHOOSE r \in 1..Len(MetadataStages) : MetadataStages[r] = stage

\* the call at place k of the log returned a date
GaveDate(k) == calls[k].raised = "none" /\ calls[k].out # None

\* the datetime a canonical string YYYY:MM:DD HH:MM:SS spells
Spelled(s) ==
    Dt(ToInt(SubSeq(s, 1, 4)), ToInt(SubSeq(s, 6, 7)), ToInt(SubSeq(s, 9, 10)),
       ToInt(SubSeq(s, 12, 13)), ToInt(SubSeq(s, 15, 16)), ToInt(SubSeq(s, 18, 19)), 0)

\* two canonical strings spell times more than 24 hours apart
MoreThanADayApart(a, b) ==
    \/ SecondsBetween(Spelled(a), Spelled(b)) > 86400
    \/ SecondsBetween(Spelled(b), Spelled(a)) > 86400

\* C1: once a metadata stage has produced a date the call neither raises
\* nor reaches the filesystem stage; it returns exactly that date, whatever
\* the filename parser produced, and the mismatch warning is logged exactly
\* when the filename parser produced a date more than 24 hours away.
C1_MetadataWins ==
    \A k \in MetadataCalls :
        GaveDate(k) =>
            /\ pc \notin {"raised", "step6"}
            /\ pc = "returned" =>
                /\ result = calls[k].out
                /\ raised = "none"
                /\ mismatch_warned <=>
                     \E j \in CallsOf("extract_date_from_filename") :
                        /\ GaveDate(j)
                        /\ MoreThanADayApart(calls[k].out, calls[j].out)

\* a metadata date a day and a second after the filename date is returned,
\* with the warning
C1_Witness ==
    /\ pc = "returned"
    /\ mismatch_warned
    /\ filename_date = SameAsName
    /\ result = <<"2", "0", "2", "4", ":", "0", "2", ":", "2", "1", " ", "1", "0", ":", "1",
            "5", ":", "0", "1">>
    /\ \E k \in MetadataCalls : calls[k].out = result

\* C2: no exception raised inside a registered extractor or any other
\* stage leaves get_file_creation_date.
C2_NoExceptionEscapes == pc # "raised" /\ raised = "none"

\* C3: the metadata stages are called in the order extractor,
\* extract_exif_data, extract_exif_via_pillow, extract_xmp_date, each at
\* most once and only after every metadata stage called before it returned
\* no date.
C3_MetadataOrder ==
    \A k \in MetadataCalls :
        \A j \in 1..(k - 1) :
            /\ j \in MetadataCalls
            /\ Rank(calls[j].stage) < Rank(calls[k].stage)
            /\ calls[j].out = None

\* the extractor found nothing, extract_exif_data found a date, and the
\* next call was the filename parser
C3_Witness ==
    /\ pc = "returned"
    /\ Len(calls) = 3
    /\ calls[1].stage = "extractor" /\ calls[1].out = None
    /\ calls[2].stage = "extract_exif_data" /\ calls[2].out # None
    /\ calls[3].stage = "extract_date_from_filename"

\* the extension of path is a registered video extension, whatever its case
HasVideoExtension(path) ==
    \E e \in VIDEO_EXTRACTORS : lower(splitext(path)[2]) = e

\* C4: for a file with a video extension in any case, extract_exif_data and
\* extract_exif_via_pillow are never called, and when the video extractor
\* returned no date the call does not get past Step 4 without
\* extract_xmp_date.
C4_VideoSkipsExif ==
    HasVideoExtension(file_path) =>
        /\ CallsOf("extract_exif_data") = {}
        /\ CallsOf("extract_exif_via_pillow") = {}
        /\ (pc \in {"step5", "step6", "returned"}
            /\ \A k \in CallsOf("extractor") : ~GaveDate(k))
           => CallsOf("extract_xmp_date") # {}

\* a .MOV file whose extractor found nothing: the XMP scan is the second call
C4_Witness ==
    /\ HasVideoExtension(file_path)
    /\ pc = "returned"
    /\ calls[1].stage = "extractor" /\ calls[1].out = None
    /\ calls[2].stage = "extract_xmp_date"

\* C5: extract_date_from_filename has been called exactly once when the
\* call is past the metadata stages and not at all before; every call
\* before it in the log is a metadata stage; a metadata date found does not
\* prevent it.
C5_FilenameOnce ==
    /\ Cardinality(CallsOf("extract_date_from_filename"))
         = (IF pc \in {"step6", "returned"} THEN 1 ELSE 0)
    /\ \A k \in CallsOf("extract_date_from_filename") :
         \A j \in 1..(k - 1) : j \in MetadataCalls

\* the filename parser ran although a metadata stage had found a date
C5_Witness ==
    /\ pc = "returned"
    /\ \E k \in MetadataCalls : GaveDate(k)
    /\ calls[Len(calls)].stage = "extract_date_from_filename"

\* C6: get_filesystem_date is the last call of the log, after the filename
\* parser, and every call before it returned no date; a filename date
\* without a metadata date is returned without get_filesystem_date; None is
\* returned only after get_filesystem_date, every call having returned no
\* date.
C6_FilesystemLast ==
    /\ \A k \in CallsOf("get_filesystem_date") :
         /\ k = Len(calls)
         /\ CallsOf("extract_date_from_filename") # {}
         /\ \A j \in 1..(k - 1) : calls[j].out = None
    /\ (pc = "returned"
        /\ (\A k \in MetadataCalls : ~GaveDate(k))
        /\ \E k \in CallsOf("extract_date_from_filename") : GaveDate(k))
       => /\ CallsOf("get_filesystem_date") = {}
          /\ \E k \in CallsOf("extract_date_from_filename") : result = calls[k].out
    /\ (pc = "returned" /\ result = None)
       => /\ CallsOf("get_filesystem_date") # {}
          /\ \A k \in 1..Len(calls) : calls[k].out = None

\* every stage came up empty, the filesystem reader last, and None is
\* returned
C6_Witness ==
    /\ pc = "returned"
    /\ result = None
    /\ calls[Len(calls)].stage = "get_filesystem_date"
    /\ Len(calls) > 3

\* s is written YYYY:MM:DD HH:MM:SS and spells a date and time that exist
IsCanonical(s) ==
    /\ Len(s) = 19
    /\ \A i \in {5, 8, 14, 17} : s[i] = ":"
    /\ s[11] = " "
    /\ \A i \in 1..19 \ {5, 8, 11, 14, 17} : IsDigit(s[i])
    /\ ValidDatetime(Spelled(s).year, Spelled(s).month, Spelled(s).day,
                     Spelled(s).hour, Spelled(s).minute, Spelled(s).second)

\* v is None or a validated date as of the clock reading clock
IsValidated(v, clock) ==
    \/ v = None
    \/ /\ IsCanonical(v)
       /\ Spelled(v).year >= 1990
       /\ ~LaterThanGrace(Spelled(v), clock)

\* C7: the value get_file_creation_date returns, its metadata_date and
\* filename_date, and the value every stage returned are None or canonical
\* with year >= 1990 and not more than one day after the wall clock.
C7_OnlyValidated ==
    /\ IsValidated(result, wall_clock)
    /\ IsValidated(metadata_date, wall_clock)
    /\ IsValidated(filename_date, wall_clock)
    /\ \A k \in 1..Len(calls) : IsValidated(calls[k].out, wall_clock)

\* the filesystem reader turned a timestamp into the canonical string that
\* is returned
C7_Witness ==
    /\ pc = "returned"
    /\ result = SameAsName
    /\ calls[Len(calls)].stage = "get_filesystem_date"
    /\ calls[Len(calls)].out = result

-----------------------------------------------------------------------------
(* _parse_date_flexible: the retry                                         *)

\* C11: when no format matches, _parse_date_flexible strips one trailing
\* timezone suffix and retries at most once: no call of validate_date makes
\* _parse_date_flexible call itself more than one time.
C11_RetriesAtMostOnce == recursions <= 1

-----------------------------------------------------------------------------
(* extract_date_from_filename: the claims                                  *)

\* the date of the name g exists in the calendar
DateIsReal(g) ==
    ValidDatetime(ToInt(g.date[1]), ToInt(g.date[2]), ToInt(g.date[3]), 12, 0, 0)

\* g is written with a time, and its date and time exist
TimeIsReal(g) ==
    /\ g.time # NoTime
    /\ ValidDatetime(ToInt(g.date[1]), ToInt(g.date[2]), ToInt(g.date[3]),
                     ToInt(g.time[1]), ToInt(g.time[2]), ToInt(g.time[3]))

\* the date and time the name g spells
NameDateTime(g) ==
    Dt(ToInt(g.date[1]), ToInt(g.date[2]), ToInt(g.date[3]),
       ToInt(g.time[1]), ToInt(g.time[2]), ToInt(g.time[3]), 0)

\* the date the name g spells, at noon
NameDateAtNoon(g) ==
    Dt(ToInt(g.date[1]), ToInt(g.date[2]), ToInt(g.date[3]), 12, 0, 0, 0)

\* dt written canonically if it is in the valid range at clock, else None
IfInRange(dt, clock) ==
    IF dt.year >= 1990 /\ ~LaterThanGrace(dt, clock) THEN strftime(dt) ELSE None

\* a file name was parsed
Parsed == spc = "done" /\ given.kind = "filename"

\* the name's time is written with dots and no extension follows, so that
\* os.path.splitext takes the seconds for the extension
SecondsSplitOff(g) == g.layout = "macos" /\ g.ext = <<>>

\* C12: the tiers are tried in the order full datetime, ISO-like datetime,
\* date only: a name written with a real date and time gives that date and
\* time; when the numbers of the time tier are no real date and time the
\* date-only tier is tried and gives the date at 12:00:00 if the date is
\* real; a name written with a date alone gives the date at 12:00:00.  (Each
\* result subject to validate_date; names in the Signal layout are the
\* subject of C13; a name whose seconds are split off as its extension has
\* no time left for tier 2.)
C12_TiersInOrder ==
    (/\ Parsed
     /\ given.layout \in (TimedLayouts \cup DateLayouts) \ {"signal"}
     /\ ~SecondsSplitOff(given)) =>
        got.value = (IF TimeIsReal(given)
                     THEN IfInRange(NameDateTime(given), Clock(ran_at))
                     ELSE IF DateIsReal(given)
                          THEN IfInRange(NameDateAtNoon(given), Clock(ran_at))
                          ELSE None)

\* IMG_20240220_250000: the full-datetime tier matched numbers that are no
\* time, and the date-only tier gave noon
C12_Witness ==
    /\ Parsed
    /\ given.layout = "android"
    /\ ~TimeIsReal(given)
    /\ got.value = <<"2", "0", "2", "4", ":", "0", "2", ":", "2", "0", " ", "1", "2", ":", "0",
            "0", ":", "0", "0">>

\* C13: a name signal-YYYY-MM-DD-HHMMSS with a real date and time in the
\* valid range gives that date with the time HH:MM:SS of the name.
C13_SignalKeepsTime ==
    (/\ Parsed
     /\ given.layout = "signal"
     /\ TimeIsReal(given)
     /\ IfInRange(NameDateTime(given), Clock(ran_at)) # None)
    => got.value = strftime(NameDateTime(given))

\* C14: a result of extract_date_from_filename that is not None is
\* canonical, of year >= 1990 and not more than one day after the clock; a
\* name whose date is before 1990, or already at 00:00:00 more than one
\* day after the clock, gives None in every layout.
C14_FilenameValidated ==
    Parsed =>
        /\ IsValidated(got.value, Clock(ran_at))
        /\ (/\ given.layout # "none"
            /\ \/ ToInt(given.date[1]) < 1990
               \/ /\ DateIsReal(given)
                  /\ LaterThanGrace([NameDateAtNoon(given) EXCEPT !.hour = 0],
                                    Clock(ran_at)))
           => got.value = None

\* 20240229_103001 parsed at T0: three quarters of a second past T0 + 1 day
C14_Witness ==
    /\ Parsed
    /\ ran_at = 0
    /\ given.layout = "android"
    /\ TimeIsReal(given)
    /\ NameDateTime(given) = Dt(2024, 2, 29, 10, 30, 1, 0)
    /\ got.value = None

-----------------------------------------------------------------------------
(* extract_xmp_date: the claims                                            *)

XmpRead == spc = "done" /\ given.kind = "xmp" /\ given.xmp.fault = "none"

\* the normalised date of the tag as TagText writes it
TagCanonical(tag) == <<"2", "0", "2", "4", ":", "0", "2", ":">> \o TagDay(tag) \o <<" ", "1",
        "0", ":", "1", "5", ":", "0", "0">>

\* the k-th tag of the stated order holds a value that validate_date accepts
StatedOrder ==
    <<"exif:DateTimeOriginal", "photoshop:DateCreated", "xmp:CreateDate",
      "xmp:ModifyDate">>

Passes(k) == given.forms[StatedOrder[k]] = "valid"

-----------------------------------------------------------------------------
(* The optional dependencies: the claims                                   *)

\* how many times the process did event for module
Times(event, module) ==
    Len(SelectSeq(events, LAMBDA e : e.event = event /\ e.module = module))

\* C16: when an optional dependency is not installed, over the files of one
\* process its warning is logged at most once, its import is attempted at
\* most once, and the extractor returns None for every file
C16_WarnedOnce ==
    \A module \in OptionalModules :
        (given # <<>> /\ given.kind = "process" /\ module \notin given.installed) =>
            /\ Times("warning", module) <= 1
            /\ Times("import", module) <= 1
            /\ \A i \in DOMAIN events :
                  (events[i].event = "call" /\ events[i].module = module)
                      => events[i].raised = "none" /\ events[i].out = None

-----------------------------------------------------------------------------
(* _extract_video_creation_date: the claims                                *)

VideoRead == spc = "done" /\ given # <<>> /\ given.kind = "video"

\* no value of tags is a date that validate_date accepted at the call
NoValidTag(tags) ==
    \A i \in DOMAIN tags : ~truthy(validate_date(tags[i], Clock(ran_at)))

\* the fast path ended in one of the ways that yield no date: ffprobe is
\* absent or cannot be started, exits non-zero, runs for 10 seconds, prints
\* what is no JSON, or prints no valid date tag
YieldsNoDate(bin, probe) ==
    \/ ~bin
    \/ probe.fault \in {"OSError", "TimeoutExpired", "JSONDecodeError"}
    \/ probe.fault = "none" /\ probe.returncode # 0
    \/ /\ probe.fault = "none"
       /\ NoValidTag(probe.format_tags)
       /\ \A i \in DOMAIN probe.streams : NoValidTag(probe.streams[i])

HachoirInvoked == \E i \in DOMAIN events : events[i].module = "hachoir"

-----------------------------------------------------------------------------
(* get_filesystem_date: the claims                                         *)

FilesystemRead == spc = "done" /\ given.kind = "filesystem"

\* the timestamp get_filesystem_date is to use
Chosen(stat) == IF stat.has_birthtime THEN stat.st_birthtime ELSE stat.st_mtime

\* the UTC date and time of the timestamps of StatTimestamps
StampDt(t) ==
    CASE t = 31536000 -> Dt(1971, 1, 1, 0, 0, 0, 0)
      [] t = 631151999 -> Dt(1989, 12, 31, 23, 59, 59, 0)
      [] t = 631152000 -> Dt(1990, 1, 1, 0, 0, 0, 0)
      [] t = 1708424100 -> Dt(2024, 2, 20, 10, 15, 0, 0)
      [] t = 1709202600 -> Dt(2024, 2, 29, 10, 30, 0, 0)
      [] t = 1709202601 -> Dt(2024, 2, 29, 10, 30, 1, 0)
      [] t = 1900000000 -> Dt(2030, 3, 17, 17, 46, 40, 0)

\* C18: get_filesystem_date uses the birth time when stat exposes one and
\* the modification time otherwise; a chosen timestamp that is zero or
\* negative gives None; an error of stat gives None; every other result is
\* the chosen time as validate_date returned it, None when it rejected it
C18_BirthTimeFirst ==
    FilesystemRead =>
        /\ got.raised = "none"
        /\ given.stat.fault # "none" => got.value = None
        /\ (given.stat.fault = "none" /\ Chosen(given.stat) <= 0) => got.value = None
        /\ (given.stat.fault = "none" /\ Chosen(given.stat) > 0) =>
              got.value = IfInRange(StampDt(Chosen(given.stat)), Clock(ran_at))
        /\ IsValidated(got.value, Clock(ran_at))

\* a file born on 2024-02-20 and modified in 2030: the birth time is used
C18_Witness ==
    /\ FilesystemRead
    /\ given.stat.fault = "none"
    /\ given.stat.has_birthtime
    /\ given.stat.st_birthtime = 1708424100
    /\ given.stat.st_mtime = 1900000000
    /\ got.value = <<"2", "0", "2", "4", ":", "0", "2", ":", "2", "0", " ", "1", "0", ":", "1",
            "5", ":", "0", "0">>

-----------------------------------------------------------------------------
(* File handles: the claims                                                *)

\* in trace every handle opened is closed by the next event
ClosedAtOnce(trace) ==
    \A i \in DOMAIN trace :
        trace[i].op = "open" =>
            /\ i < Len(trace)
            /\ trace[i + 1].op = "close"
            /\ trace[i + 1].by = trace[i].by

\* C19: during get_file_creation_date every file handle a stage opens is
\* closed when the stage is left, by a return or by an exception: whenever a
\* stage starts, and when the function returns or raises, no handle is open
C19_HandlesClosed ==
    /\ handles.open = {}
    /\ ClosedAtOnce(handles.last)

\* extract_exif_via_pillow ran into an OSError after Image.open gave it the
\* file; the extractor and extract_exif_data had been called before; the XMP
\* scan is about to start
C19_Witness ==
    /\ pc = "step4"
    /\ Len(calls) = 3
    /\ Len(handles.last) = 2
    /\ handles.last[1] = [op |-> "open", by |-> "extract_exif_via_pillow"]
    /\ handles.last[2].on = "OSError"
    /\ handles.open = {}

-----------------------------------------------------------------------------
(* organize: the claims                                                    *)

\* the file of the origin tree at path p is resolved to a date
Dated(p) ==
    /\ ~should_skip_file(NameOf(p))
    /\ tree[p].raised = "none"
    /\ truthy(tree[p].value)

\* destination/YYYY/MM/<filename>, YYYY and MM as the date of p spells them
ByDate(p) ==
    DestinationDir \o <<SubSeq(tree[p].value, 1, 4), SubSeq(tree[p].value, 6, 7),
                        NameOf(p)>>

\* no other file is to be at ByDate(p): none was there, none of the tree
\* comes there
Alone(p) ==
    /\ ByDate(p) # Before
    /\ \A q \in DOMAIN tree : (q # p /\ Dated(q)) => ByDate(q) # ByDate(p)

-----------------------------------------------------------------------------
(* organize on the file get_file_creation_date resolved: the claims        *)

\* the path under which organize collected the file
Collected == OriginDir \o <<basename(file_path)>>

\* how often organize called, logged or incremented what for the path p
Logged(p, what) == Count(olog[p], what)

\* a .jpg file for which extract_exif_data was called and gave no date, for
\* which no other metadata stage gave one, and whose name gave none
UndatedJpg ==
    /\ FileExt(file_path) = <<".", "j", "p", "g">>
    /\ CallsOf("extract_exif_data") # {}
    /\ CallsOf("extract_date_from_filename") # {}
    /\ \A k \in 1..Len(calls) :
          calls[k].stage # "get_filesystem_date"
             => calls[k].raised = "none" /\ ~GaveDate(k)

\* C21 as stated: when extract_exif_data yields no date for an existing .jpg
\* file without other metadata and without a date in its name, the turn of
\* organize on the file calls log_and_handle_error exactly once
C21_HandledOnce ==
    (opc # "off" /\ UndatedJpg) => Logged(Collected, "log_and_handle_error") = 1

-----------------------------------------------------------------------------
(* organize: the files without a date                                      *)

\* the file of the origin tree at path p is resolved to no date
Undated(p) ==
    /\ ~should_skip_file(NameOf(p))
    /\ tree[p] = Return(None)

\* destination/Unknown/<filename>
InUnknown(p) == DestinationDir \o <<Unknown, NameOf(p)>>

\* no other file of the origin tree has the name of p
OnlyOfItsName(p) == \A q \in DOMAIN tree : q # p => NameOf(q) # NameOf(p)

-----------------------------------------------------------------------------
(* organize: errors, counters and the files deleted by name                *)

\* C23 as stated: an OSError raised during the turn of a file is caught and
\* logged at error level and does not end the run: none leaves organize, and
\* when organize has returned every collected file has had its turn
C23_OSErrorCaught ==
    /\ oraised # "OSError"
    /\ opc = "returned" => todo = {} /\ count.processed_count = count.total_files

\* the directories under the origin that hold no file and no directory
\* when organize starts
EmptyAtStart ==
    {d \in InitialDirs(tree) \ {OriginDir} :
        ~Holds(InitialFs(tree, FALSE), InitialDirs(tree), d)}

\* C24 as stated: when organize has returned, no directory under the
\* origin exists that held no file and no directory when organize started
C24_EmptyDirsRemoved ==
    opc = "returned" => \A d \in EmptyAtStart : d \notin dirs

\* C24 amended: when organize has returned, every directory under the
\* origin that held no file and no directory when organize started is one of
\* empty_dirs, and it no longer exists unless os.rmdir raised OSError for
\* it, which was logged as a warning
C24_EmptyDirsRemovedUnlessRefused ==
    opc \in {"loop", "returned"} =>
        \A d \in EmptyAtStart :
            /\ \E i \in DOMAIN empty_dirs : empty_dirs[i] = d
            /\ d \in dirs <=> Logged(d, "warning:381") = 1
            /\ d \notin dirs <=> Logged(d, "info:379") = 1

\* organize has returned with files moved, and origin/e/f is removed
C24_Witness ==
    /\ opc = "returned"
    /\ count.moved_count > 0
    /\ EmptyDir \in EmptyAtStart
    /\ EmptyDir \notin dirs
    /\ Logged(EmptyDir, "info:379") = 1

\* the files of the origin tree whose turn of the loop is over
Turned == IF opc \in {"loop", "returned", "raised"} THEN DOMAIN tree \ todo ELSE {}

\* the name of p in lower case is thumbs.db or desktop
Unwanted(p) == lower(NameOf(p)) \in {<<"t", "h", "u", "m", "b", "s", ".", "d", "b">>, <<"d",
        "e", "s", "k", "t", "o", "p">>}

\* no file but the one at p itself has the content of the file collected at p
NowhereElse(p) == \A q \in DOMAIN fs : fs[q] = p => q = p

\* the turn of p counted it as processed, and neither as moved nor as an
\* error, and did not resolve it
OnlyProcessed(p) ==
    /\ count.processed_count = Cardinality(Turned)
    /\ Logged(p, "get_file_creation_date") = 0
    /\ Logged(p, "moved_count += 1") = 0
    /\ Logged(p, "error_count += 1") = 0
    /\ Logged(p, "log_and_handle_error") = 0

\* C25 as stated: after its turn a file named thumbs.db or desktop, in any
\* letters, is deleted; it was not passed to get_file_creation_date nor moved
\* to the destination, and it was counted as processed only
C25_UnwantedDeleted ==
    \A p \in Turned :
        Unwanted(p) => ~Exists(fs, p) /\ NowhereElse(p) /\ OnlyProcessed(p)

\* C25 amended: after its turn a file named thumbs.db or desktop, in any
\* letters, is deleted unless os.remove raised OSError, which was logged at
\* error level; it was not passed to get_file_creation_date nor moved to the
\* destination, and it was counted as processed only
C25_UnwantedDeletedUnlessRefused ==
    \A p \in Turned :
        Unwanted(p) =>
            /\ Exists(fs, p) <=> Logged(p, "error:397") = 1
            /\ NowhereElse(p)
            /\ OnlyProcessed(p)

\* organize has returned: Thumbs.db and DESKTOP were in the origin tree and
\* are deleted
C25_Witness ==
    /\ opc = "returned"
    /\ \E p, q \in Turned :
          /\ NameOf(p) = <<"T", "h", "u", "m", "b", "s", ".", "d", "b">> /\ NameOf(q) = <<"D",
                  "E", "S", "K", "T", "O", "P">>
          /\ ~Exists(fs, p) /\ ~Exists(fs, q)
          /\ summary = <<2, 0, 0>>

\* C27: while organize runs and when it has returned, moved_count +
\* error_count <= processed_count <= total_files, and no file was counted
\* both as moved and as an error; when it has returned, processed_count is
\* the number of files collected and the summary reports the three counters
C27_CountersBounded ==
    opc \in {"loop", "returned"} =>
        /\ count.moved_count + count.error_count <= count.processed_count
        /\ count.processed_count <= count.total_files
        /\ \A p \in Turned :
              Logged(p, "moved_count += 1") = 0 \/ Logged(p, "error_count += 1") = 0
        /\ opc = "returned" =>
              /\ count.processed_count = Cardinality(DOMAIN tree)
              /\ summary = <<count.processed_count, count.moved_count, count.error_count>>

\* C27 without its first inequality, which is what holds: processed_count
\* counts the turns and never exceeds total_files, no file is counted both
\* as moved and as an error, and the summary reports the counters
C27_ProcessedBounded ==
    opc \in {"loop", "returned"} =>
        /\ count.processed_count = Cardinality(Turned)
        /\ count.processed_count <= count.total_files
        /\ count.total_files = Cardinality(DOMAIN tree)
        /\ \A p \in Turned :
              Logged(p, "moved_count += 1") = 0 \/ Logged(p, "error_count += 1") = 0
        /\ opc = "returned" =>
              /\ count.processed_count = Cardinality(DOMAIN tree)
              /\ summary = <<count.processed_count, count.moved_count, count.error_count>>

\* C30: the directories without files are collected by one scan, parents
\* before children, and os.rmdir is tried on them before any file is
\* processed and never again: in the loop and at return a directory that
\* held only an empty directory still exists, and so does every directory
\* that held a file, which was not collected, whether it is empty by now
\* or not
C30_OneScanTopDown ==
    opc \in {"loop", "returned"} =>
        /\ TopDown(empty_dirs)
        /\ \A d \in DOMAIN olog : Len(d) > 0 /\ d \notin DOMAIN tree =>
              \E i \in DOMAIN empty_dirs : empty_dirs[i] = d
        /\ OnlyDirs \in dirs
        /\ Logged(OnlyDirs, "warning:381") = 1
        /\ \A p \in DOMAIN tree :
              /\ Parent(p) \in dirs
              /\ \A i \in DOMAIN empty_dirs : empty_dirs[i] # Parent(p)

\* organize has returned: origin/e/f was removed and origin/e, empty by now,
\* is still there, and so is a directory whose only file was moved away
C30_Witness ==
    /\ opc = "returned"
    /\ EmptyDir \notin dirs
    /\ OnlyDirs \in dirs
    /\ ~Holds(fs, dirs, OnlyDirs)
    /\ \E p \in DOMAIN tree :
          /\ Parent(p) \in dirs
          /\ ~Holds(fs, dirs, Parent(p))
          /\ Logged(p, "moved_count += 1") = 1

-----------------------------------------------------------------------------
(* move_file_safely: the claims                                            *)

\* the file move_file_safely would write, and whether it was there before
FileDestination == given.dest_path \o <<given.filename>>
Moved == spc = "done" /\ given.kind = "move"

\* C26: when no call raises OSError, move_file_safely leaves a file that is
\* at dest_path/filename as it was, deletes the source and returns True, and
\* otherwise moves the source to dest_path/filename
C26_DestinationKept ==
    Moved /\ given.io = "none" =>
        /\ got.raised = "none" /\ got.value = TRUE
        /\ IF Exists(given.files, FileDestination)
           THEN /\ Exists(got.files, FileDestination)
                /\ got.files[FileDestination] = given.files[FileDestination]
                /\ ~Exists(got.files, given.source_path)
           ELSE got.files = Move(given.files, given.source_path, FileDestination)

\* C26 where it holds: the same, the source not being the file at
\* dest_path/filename itself
C26_DestinationKeptOfAnother ==
    Moved /\ given.io = "none" /\ given.source_path # FileDestination =>
        /\ got.raised = "none" /\ got.value = TRUE
        /\ IF Exists(given.files, FileDestination)
           THEN /\ Exists(got.files, FileDestination)
                /\ got.files[FileDestination] = given.files[FileDestination]
                /\ ~Exists(got.files, given.source_path)
           ELSE got.files = Move(given.files, given.source_path, FileDestination)

-----------------------------------------------------------------------------
(* extract_date_from_filename: a date that validate_date rejects            *)

\* the date and time the first tier that matches the name g builds, NoDt
\* when none builds one: tiers 1 and 2 from a real date and time in their
\* layouts, tier 3 from a real date
FirstBuilt(g) ==
    IF g.layout \in {"android", "whatsapp", "macos", "isoish", "twice"}
       /\ ~SecondsSplitOff(g) /\ TimeIsReal(g)
    THEN NameDateTime(g)
    ELSE IF g.layout # "none" /\ DateIsReal(g) THEN NameDateAtNoon(g) ELSE NoDt

\* C28: when the first tier that matches builds a date and time that
\* validate_date rejects, extract_date_from_filename returns None, whatever
\* a later tier or a later match would give
C28_RejectedIsFinal ==
    (/\ Parsed
     /\ FirstBuilt(given) # NoDt
     /\ IfInRange(FirstBuilt(given), Clock(ran_at)) = None)
    => got.value = None

\* 19891231_101500_2024-02-20 at 10.15.00.jpg: tier 1 built a date of 1989,
\* tier 2 would have matched 2024-02-20 10:15:00, and the result is None
C28_Witness ==
    /\ Parsed
    /\ given.layout = "twice"
    /\ given.then = "macos"
    /\ ToInt(given.date[1]) = 1989
    /\ Search2(splitext(given.filename)[1]) # 0
    /\ got.value = None

-----------------------------------------------------------------------------
(* The GUI: the claims                                                     *)

\* the threads whose run is not over, and those that have not yet emitted
\* finished or error
Running == {w \in DOMAIN threads : threads[w].pc # "ended"}
Organizing == {w \in DOMAIN threads : threads[w].pc \in {"started", "organize"}}

\* the signals finished and error that the thread w has emitted
Final(w) == SelectSeq(threads[w].emitted, LAMBDA e : e \in {"finished", "error"})

\* the signal finished or error of the thread w is not yet handled
Unhandled(w) ==
    \/ w \in Organizing
    \/ \E i \in DOMAIN posted :
          posted[i].sender = w /\ posted[i].signal \in {"finished", "error"}

\* what the claim says of the button, of the signals and of the level: the
\* button is disabled from before worker.start() until the slot of finished
\* or error runs, which alone enables it; a run that has reached its finally
\* clause has emitted exactly one of finished and error, and an earlier one
\* none; when no run is between its first line and the end of its finally
\* clause the level of the logger is INFO
ButtonSignalsLevel ==
    /\ \A w \in DOMAIN threads : Unhandled(w) => ~organize_btn
    /\ \A i \in DOMAIN did :
          /\ did[i].call = "worker.start()" =>
                i > 1 /\ did[i - 1].call = "setEnabled(False)"
          /\ did[i].call = "setEnabled(True)" =>
                did[i].by \in {"on_organization_finished", "on_organization_error"}
    /\ \A w \in DOMAIN threads :
          Len(Final(w)) = (IF w \in Organizing THEN 0 ELSE 1)
    /\ (\A w \in DOMAIN threads : threads[w].pc \in {"started", "ended"}) => level = "INFO"

\* C29 as stated: at most one OrganizerWorker is running at a time, with
\* what the claim says of the button, the signals and the level
C29_OneWorkerAtATime ==
    /\ Cardinality(Running) <= 1
    /\ ButtonSignalsLevel

\* C29 where it holds: at most one OrganizerWorker has not yet emitted
\* finished or error, with what the claim says of the button, the signals
\* and the level
C29_OneWorkerOrganizing ==
    /\ Cardinality(Organizing) <= 1
    /\ ButtonSignalsLevel

\* a second worker is organizing and the first has not yet run its finally
\* clause
C29_Overlap ==
    /\ Len(threads) = 2
    /\ threads[1].pc = "finally"
    /\ threads[2].pc = "organize"

=============================================================================
